---- MODULE Spec2Model ----
(***************************************************************************)
(* Maintenance support agent: the chat turn loop (chatHandler), the tool   *)
(* handlers over work_orders.json (toolImplementations), the duplicate     *)
(* issue detector (check_similar_issues / compareIssuesWithLLM) and the    *)
(* PATCH /api/work-orders/:id route.                                       *)
(*                                                                         *)
(* Node runs every handler on one thread: a request is interleaved with    *)
(* other requests only where it awaits (the engine call of the loop and    *)
(* the judge call inside check_similar_issues).  Every action below is one *)
(* such run-to-completion step.                                            *)
(***************************************************************************)
EXTENDS Integers, Sequences, FiniteSets, TLC

(***************************************************************************)
(* Bounds of the model.                                                    *)
(***************************************************************************)
\* longest work-order collection the model lets create_work_order build
MaxOrders == 2
\* the same under SpecOrders, whose records take every status
MaxLifecycleOrders == 1
\* last millisecond of the clock (Date.now() ranges over 1..MaxClock)
MaxClock == 2
\* most tool calls in one engine answer
MaxBatch == 2
\* records in contractors.json (SpecContractors)
MaxContractors == 2

(***************************************************************************)
(* Program constants.                                                      *)
(***************************************************************************)
MAX_LOOPS == 5

\* JavaScript undefined / null for string-valued fields, unset timestamps,
\* and the work-order id no create ever produces (ids are clock values >= 1)
UNDEF == "undefined"
UNSET == 0
\* a timestamp that has been written: the model keeps of updated_at and
\* resolved_at whether they are set, not the instant
SET == 1
NoId == 0

\* the requests the model runs; Spec runs r1 only, SpecConc both
Turns == {"r1", "r2"}

\* tenants.json (read-only reference data); tenants[0] is the fallback
Tenants == << [id |-> "tenant-001"], [id |-> "tenant-002"] >>

\* contractors.json as the repository ships it (read-only reference data);
\* names are character lists
Contractors ==
  << [id |-> <<"c", "1">>, name |-> <<"A", "l">>, service |-> <<"g", "a", "s">>],
     [id |-> <<"c", "2">>, name |-> <<"A", "l", "f">>, service |-> <<"l", "o", "c", "k">>] >>

VARIABLE
  contractors_json  \* contractors.json as readJSON returns it

VARIABLE
  knowledge_json    \* knowledge.json as readJSON returns it: << >> when the
                    \* file cannot be read (null), else the list in << >>

validStatuses == {"assigned", "pending", "in_progress", "completed", "solved"}

(***************************************************************************)
(* String helpers (JavaScript String methods on character lists).          *)
(***************************************************************************)
LowerChar(c) ==
  CASE c = "A" -> "a"
    [] c = "L" -> "l"
    [] c = "F" -> "f"
    [] c = "G" -> "g"
    [] OTHER -> c

\* String.prototype.toLowerCase on a character list
toLowerCase(s) == [i \in 1..Len(s) |-> LowerChar(s[i])]

\* String.prototype.includes
includes(hay, needle) ==
  \E k \in 0..(Len(hay) - Len(needle)) :
    \A i \in 1..Len(needle) : hay[k + i] = needle[i]

\* String.prototype.toLowerCase on a status string
StatusLower(s) ==
  CASE s = "Assigned" -> "assigned"
    [] s = "Pending" -> "pending"
    [] s = "IN_PROGRESS" -> "in_progress"
    [] s = "Solved" -> "solved"
    [] s = "Completed" -> "completed"
    [] OTHER -> s

\* String.prototype.split(/\s+/) on a character list
RECURSIVE split(_)
split(s) ==
  IF \A i \in 1..Len(s) : s[i] # " "
    THEN <<s>>
    ELSE LET k == CHOOSE i \in 1..Len(s) : s[i] = " " /\ \A j \in 1..(i - 1) : s[j] # " "
             rest == {i \in (k + 1)..Len(s) : s[i] # " "}
             j == IF rest = {} THEN Len(s) + 1
                  ELSE CHOOSE i \in rest : \A m \in rest : i <= m
         IN  <<SubSeq(s, 1, k - 1)>> \o split(SubSeq(s, j, Len(s)))

\* String.prototype.trim on a character list
RECURSIVE trim(_)
trim(s) ==
  IF s = << >> THEN s
  ELSE IF Head(s) = " " THEN trim(Tail(s))
  ELSE IF s[Len(s)] = " " THEN trim(SubSeq(s, 1, Len(s) - 1))
  ELSE s

\* Array.prototype.join(" ")
RECURSIVE join(_)
join(parts) ==
  IF parts = << >> THEN << >>
  ELSE IF Len(parts) = 1 THEN parts[1]
  ELSE parts[1] \o <<" ">> \o join(Tail(parts))

\* Array.prototype.findIndex, 1-based, given the set of the indices whose
\* element satisfies the test; 0 when there is none
FindIndex(hits) ==
  IF hits = {} THEN 0 ELSE CHOOSE i \in hits : \A j \in hits : i <= j

\* Array.prototype.splice(index, 1)
RemoveAt(seq, i) == [k \in 1..(Len(seq) - 1) |-> IF k < i THEN seq[k] ELSE seq[k + 1]]

(***************************************************************************)
(* Work orders and the tool handlers (toolImplementations).  A handler is  *)
(* an operator from the collection it read, its arguments and the clock to *)
(* an outcome: the collection it wrote, and its return value or the error  *)
(* it threw.                                                               *)
(***************************************************************************)
\* the value of a || b for string-valued fields
OrElse(a, b) == IF a \notin {UNDEF, ""} THEN a ELSE b

\* new Date().toISOString()
toISOString(clock) == IF clock >= 1 THEN SET ELSE UNSET

\* the value of a || b for timestamps
OrElseTime(a, b) == IF a # UNSET THEN a ELSE b

\* a handler returns: the store it wrote and `result`
Returned(wos, result) == [threw |-> FALSE, error |-> "", store |-> wos, result |-> result]

\* Threw with a catch block that does not assign `result`
Threw_ResultNotSet(wos, message) ==
  [threw |-> TRUE, error |-> message, store |-> wos, result |-> [error |-> UNDEF]]

\* a handler throws: the store as it was and the result the catch block of
\* the dispatcher makes of the error
Threw(wos, message) == [threw |-> TRUE, error |-> message, store |-> wos, result |-> [error |-> message]]

\* WithoutAttachments with the attachments left in the result
WithoutAttachments_Kept(wo) ==
  [id |-> wo.id, tenant_id |-> wo.tenant_id, issue_summary |-> wo.issue_summary,
   contractor_id |-> wo.contractor_id, contractor_name |-> wo.contractor_name,
   trade |-> wo.trade, priority |-> wo.priority, status |-> wo.status,
   created_at |-> wo.created_at, updated_at |-> wo.updated_at,
   resolved_at |-> wo.resolved_at, resolution_notes |-> wo.resolution_notes,
   attachments_count |-> Len(wo.attachments), attachments |-> wo.attachments]

\* const { attachments, ...orderWithoutAttachments } = wo;
\* { ...orderWithoutAttachments, attachments_count }
WithoutAttachments(wo) ==
  [id |-> wo.id, tenant_id |-> wo.tenant_id, issue_summary |-> wo.issue_summary,
   contractor_id |-> wo.contractor_id, contractor_name |-> wo.contractor_name,
   trade |-> wo.trade, priority |-> wo.priority, status |-> wo.status,
   created_at |-> wo.created_at, updated_at |-> wo.updated_at,
   resolved_at |-> wo.resolved_at, resolution_notes |-> wo.resolution_notes,
   attachments_count |-> Len(wo.attachments)]

\* ResolveContractor with the partial match tried before the exact name
ResolveContractor_PartFirst(contractors, contractor_id) ==
  LET byId == FindIndex({i \in 1..Len(contractors) : contractors[i].id = contractor_id})
      byName == FindIndex({i \in 1..Len(contractors) :
                  toLowerCase(contractors[i].name) = toLowerCase(contractor_id)})
      byPart == FindIndex({i \in 1..Len(contractors) :
                  includes(toLowerCase(contractors[i].name), toLowerCase(contractor_id))})
  IN  IF byId # 0 THEN byId ELSE IF byPart # 0 THEN byPart ELSE byName

\* the contractor create_work_order resolves its argument to; 0 when none
ResolveContractor(contractors, contractor_id) ==
  LET byId == FindIndex({i \in 1..Len(contractors) : contractors[i].id = contractor_id})
      byName == FindIndex({i \in 1..Len(contractors) :
                  toLowerCase(contractors[i].name) = toLowerCase(contractor_id)})
      byPart == FindIndex({i \in 1..Len(contractors) :
                  includes(toLowerCase(contractors[i].name), toLowerCase(contractor_id))})
  IN  IF byId # 0 THEN byId ELSE IF byName # 0 THEN byName ELSE byPart

\* the argument create_work_order gets when the engine leaves contractor_id out
NoContractorArg == << UNDEF >>

\* create_work_order without the test `if (!contractor) throw`: the
\* argument as given is stored as the contractor
create_work_order_RawContractor(wos, args, clock) ==
  LET contractors == contractors_json
      k == ResolveContractor(contractors, args.contractor_id)
      newOrder ==
        [id |-> clock, tenant_id |-> args.tenant_id, tenantId |-> UNDEF, contractorId |-> NoContractorArg,
         issue_summary |-> args.issue_summary, issueDescription |-> UNDEF,
         contractor_id |-> IF k = 0 THEN args.contractor_id ELSE contractors[k].id,
         contractor_name |-> IF k = 0 THEN args.contractor_id ELSE contractors[k].name,
         trade |-> IF k = 0 THEN << >> ELSE contractors[k].service,
         priority |-> args.priority, status |-> "assigned",
         created_at |-> clock, createdAt |-> UNSET,
         attachments |-> args.attachments,
         updated_at |-> UNSET, resolved_at |-> UNSET,
         resolution_notes |-> UNDEF]
  IN  Returned(Append(wos, newOrder), WithoutAttachments(newOrder))

\* create_work_order that writes the collection without the orders that have
\* the id of the new one: of two orders made in the same millisecond the
\* last one written stays
create_work_order_LastWriterWins(wos, args, clock) ==
  LET contractors == contractors_json
      byId == FindIndex({i \in 1..Len(contractors) : contractors[i].id = args.contractor_id})
      k == ResolveContractor(contractors, args.contractor_id)
  IN  IF byId = 0 /\ args.contractor_id = NoContractorArg /\ contractors # << >>
        THEN \* contractor_id.toLowerCase() in the callback of the second find
             Threw(wos, "Cannot read properties of undefined")
      ELSE IF k = 0
        THEN Threw(wos, "Contractor not found")
      ELSE LET newOrder ==
                 [id |-> clock, tenant_id |-> args.tenant_id, tenantId |-> UNDEF, contractorId |-> NoContractorArg,
                  issue_summary |-> args.issue_summary, issueDescription |-> UNDEF,
                  contractor_id |-> contractors[k].id,
                  contractor_name |-> contractors[k].name,
                  trade |-> contractors[k].service,
                  priority |-> args.priority, status |-> "assigned",
                  created_at |-> clock, createdAt |-> UNSET,
                  attachments |-> args.attachments,
                  updated_at |-> UNSET, resolved_at |-> UNSET,
                  resolution_notes |-> UNDEF]
           IN  Returned(Append(SelectSeq(wos, LAMBDA o : o.id # newOrder.id), newOrder),
                        WithoutAttachments(newOrder))

create_work_order(wos, args, clock) ==
  LET contractors == contractors_json
      byId == FindIndex({i \in 1..Len(contractors) : contractors[i].id = args.contractor_id})
      k == ResolveContractor(contractors, args.contractor_id)
  IN  IF byId = 0 /\ args.contractor_id = NoContractorArg /\ contractors # << >>
        THEN \* contractor_id.toLowerCase() in the callback of the second find
             Threw(wos, "Cannot read properties of undefined")
      ELSE IF k = 0
        THEN Threw(wos, "Contractor not found")
      ELSE LET newOrder ==
                 [id |-> clock, tenant_id |-> args.tenant_id, tenantId |-> UNDEF, contractorId |-> NoContractorArg,
                  issue_summary |-> args.issue_summary, issueDescription |-> UNDEF,
                  contractor_id |-> contractors[k].id,
                  contractor_name |-> contractors[k].name,
                  trade |-> contractors[k].service,
                  priority |-> args.priority, status |-> "assigned",
                  created_at |-> clock, createdAt |-> UNSET,
                  attachments |-> args.attachments,
                  updated_at |-> UNSET, resolved_at |-> UNSET,
                  resolution_notes |-> UNDEF]
           IN  Returned(Append(wos, newOrder), WithoutAttachments(newOrder))

\* get_work_orders with the tenant filter reading the field tenantId only
get_work_orders_LegacyFieldOnly(wos, args) ==
  LET byTenant == SelectSeq(wos, LAMBDA wo : wo.tenantId = args.tenant_id)
      filtered == IF args.status_filter \notin {UNDEF, ""}
                    THEN SelectSeq(byTenant,
                           LAMBDA wo : StatusLower(OrElse(wo.status, "")) = StatusLower(args.status_filter))
                    ELSE byTenant
  IN  Returned(wos,
        [orders |-> [i \in 1..Len(filtered) |->
           [id |-> filtered[i].id,
            tenant_id |-> OrElse(filtered[i].tenant_id, filtered[i].tenantId),
            issue_summary |-> OrElse(filtered[i].issue_summary, filtered[i].issueDescription),
            contractor_id |-> IF filtered[i].contractor_id # NoContractorArg
                                THEN filtered[i].contractor_id
                                ELSE filtered[i].contractorId,
            contractor_name |-> filtered[i].contractor_name,
            trade |-> filtered[i].trade,
            priority |-> filtered[i].priority,
            status |-> filtered[i].status,
            created_at |-> OrElseTime(filtered[i].created_at, filtered[i].createdAt),
            attachments_count |-> Len(filtered[i].attachments),
            has_photos |-> Len(filtered[i].attachments) > 0]]])

\* get_work_orders with the status compared as written, without toLowerCase
get_work_orders_CaseSensitive(wos, args) ==
  LET byTenant == SelectSeq(wos, LAMBDA wo : OrElse(wo.tenant_id, wo.tenantId) = args.tenant_id)
      filtered == IF args.status_filter \notin {UNDEF, ""}
                    THEN SelectSeq(byTenant,
                           LAMBDA wo : OrElse(wo.status, "") = args.status_filter)
                    ELSE byTenant
  IN  Returned(wos,
        [orders |-> [i \in 1..Len(filtered) |->
           [id |-> filtered[i].id,
            tenant_id |-> OrElse(filtered[i].tenant_id, filtered[i].tenantId),
            issue_summary |-> OrElse(filtered[i].issue_summary, filtered[i].issueDescription),
            contractor_id |-> IF filtered[i].contractor_id # NoContractorArg
                                THEN filtered[i].contractor_id
                                ELSE filtered[i].contractorId,
            contractor_name |-> filtered[i].contractor_name,
            trade |-> filtered[i].trade,
            priority |-> filtered[i].priority,
            status |-> filtered[i].status,
            created_at |-> OrElseTime(filtered[i].created_at, filtered[i].createdAt),
            attachments_count |-> Len(filtered[i].attachments),
            has_photos |-> Len(filtered[i].attachments) > 0]]])

get_work_orders(wos, args) ==
  LET byTenant == SelectSeq(wos, LAMBDA wo : OrElse(wo.tenant_id, wo.tenantId) = args.tenant_id)
      filtered == IF args.status_filter \notin {UNDEF, ""}
                    THEN SelectSeq(byTenant,
                           LAMBDA wo : StatusLower(OrElse(wo.status, "")) = StatusLower(args.status_filter))
                    ELSE byTenant
  IN  Returned(wos,
        [orders |-> [i \in 1..Len(filtered) |->
           [id |-> filtered[i].id,
            tenant_id |-> OrElse(filtered[i].tenant_id, filtered[i].tenantId),
            issue_summary |-> OrElse(filtered[i].issue_summary, filtered[i].issueDescription),
            contractor_id |-> IF filtered[i].contractor_id # NoContractorArg
                                THEN filtered[i].contractor_id
                                ELSE filtered[i].contractorId,
            contractor_name |-> filtered[i].contractor_name,
            trade |-> filtered[i].trade,
            priority |-> filtered[i].priority,
            status |-> filtered[i].status,
            created_at |-> OrElseTime(filtered[i].created_at, filtered[i].createdAt),
            attachments_count |-> Len(filtered[i].attachments),
            has_photos |-> Len(filtered[i].attachments) > 0]]])

\* update_work_order without the tests `!== undefined`: the three fields are
\* assigned whether provided or not
update_work_order_AssignsAll(wos, args, clock) ==
  LET orderIndex == FindIndex({i \in 1..Len(wos) : wos[i].id = args.work_order_id})
  IN  IF orderIndex = 0
        THEN Threw(wos, "Work order not found.")
        ELSE LET old == wos[orderIndex]
                 new == [old EXCEPT
                           !.issue_summary = args.issue_summary,
                           !.priority = args.priority,
                           !.status = args.status,
                           !.updated_at = toISOString(clock)]
             IN  Returned([wos EXCEPT ![orderIndex] = new], WithoutAttachments(new))

\* update_work_order with the time stamp written to created_at
update_work_order_StampsCreatedAt(wos, args, clock) ==
  LET orderIndex == FindIndex({i \in 1..Len(wos) : wos[i].id = args.work_order_id})
  IN  IF orderIndex = 0
        THEN Threw(wos, "Work order not found.")
        ELSE LET old == wos[orderIndex]
                 new == [old EXCEPT
                           !.issue_summary = IF args.issue_summary # UNDEF
                                               THEN args.issue_summary ELSE @,
                           !.priority = IF args.priority # UNDEF THEN args.priority ELSE @,
                           !.status = IF args.status # UNDEF THEN args.status ELSE @,
                           !.created_at = clock]
             IN  Returned([wos EXCEPT ![orderIndex] = new], WithoutAttachments(new))

update_work_order(wos, args, clock) ==
  LET orderIndex == FindIndex({i \in 1..Len(wos) : wos[i].id = args.work_order_id})
  IN  IF orderIndex = 0
        THEN Threw(wos, "Work order not found.")
        ELSE LET old == wos[orderIndex]
                 new == [old EXCEPT
                           !.issue_summary = IF args.issue_summary # UNDEF
                                               THEN args.issue_summary ELSE @,
                           !.priority = IF args.priority # UNDEF THEN args.priority ELSE @,
                           !.status = IF args.status # UNDEF THEN args.status ELSE @,
                           !.updated_at = toISOString(clock)]
             IN  Returned([wos EXCEPT ![orderIndex] = new], WithoutAttachments(new))

\* complete_work_order that takes the record out and pushes the completed
\* record at the end of the collection
complete_work_order_MovesToEnd(wos, args, clock) ==
  LET orderIndex == FindIndex({i \in 1..Len(wos) : wos[i].id = args.work_order_id})
  IN  IF orderIndex = 0
        THEN Threw(wos, "Work order not found.")
        ELSE LET old == wos[orderIndex]
                 new == [old EXCEPT
                           !.status = "solved",
                           !.updated_at = toISOString(clock),
                           !.resolved_at = toISOString(clock),
                           !.resolution_notes = IF args.resolution_notes \notin {UNDEF, ""}
                                                  THEN args.resolution_notes ELSE @]
             IN  Returned(Append(RemoveAt(wos, orderIndex), new), WithoutAttachments(new))

\* complete_work_order without the assignment of resolved_at
complete_work_order_NoResolvedAt(wos, args, clock) ==
  LET orderIndex == FindIndex({i \in 1..Len(wos) : wos[i].id = args.work_order_id})
  IN  IF orderIndex = 0
        THEN Threw(wos, "Work order not found.")
        ELSE LET old == wos[orderIndex]
                 new == [old EXCEPT
                           !.status = "solved",
                           !.updated_at = toISOString(clock),
                           !.resolution_notes = IF args.resolution_notes \notin {UNDEF, ""}
                                                  THEN args.resolution_notes ELSE @]
             IN  Returned([wos EXCEPT ![orderIndex] = new], WithoutAttachments(new))

complete_work_order(wos, args, clock) ==
  LET orderIndex == FindIndex({i \in 1..Len(wos) : wos[i].id = args.work_order_id})
  IN  IF orderIndex = 0
        THEN Threw(wos, "Work order not found.")
        ELSE LET old == wos[orderIndex]
                 new == [old EXCEPT
                           !.status = "solved",
                           !.updated_at = toISOString(clock),
                           !.resolved_at = toISOString(clock),
                           !.resolution_notes = IF args.resolution_notes \notin {UNDEF, ""}
                                                  THEN args.resolution_notes ELSE @]
             IN  Returned([wos EXCEPT ![orderIndex] = new], WithoutAttachments(new))

\* delete_work_order without the test orderIndex === -1: splice(-1, 1)
\* removes the last record
delete_work_order_NoGuard(wos, args) ==
  LET orderIndex == FindIndex({i \in 1..Len(wos) : wos[i].id = args.work_order_id})
      at == IF orderIndex = 0 THEN Len(wos) ELSE orderIndex
  IN  IF wos = << >>
        THEN Threw(wos, "Work order not found.")
        ELSE Returned(RemoveAt(wos, at),
               [success |-> TRUE, deleted_order |-> WithoutAttachments(wos[at])])

delete_work_order(wos, args) ==
  LET orderIndex == FindIndex({i \in 1..Len(wos) : wos[i].id = args.work_order_id})
  IN  IF orderIndex = 0
        THEN Threw(wos, "Work order not found.")
        ELSE Returned(RemoveAt(wos, orderIndex),
               [success |-> TRUE, deleted_order |-> WithoutAttachments(wos[orderIndex])])

\* db/knowledge.json as readJSON returns it: an article with a title and
\* tags, and one with neither
Knowledge ==
  << [title |-> <<"G", "a", "s">>, content |-> <<"l", "o", "c", "k">>,
      tags |-> << <<"g", "a", "s">> >>],
     [title |-> << >>, content |-> <<" ", "g", "a", "s", " ", "f">>, tags |-> << >>] >>

\* the score of an article for the terms: 1 for a term found in the text,
\* 2 more when the title has it
RECURSIVE Score(_, _)
Score(article, terms) ==
  IF terms = << >> THEN 0
  ELSE LET term == Head(terms)
           text == toLowerCase(article.title \o <<" ">> \o article.content \o <<" ">>
                                 \o join(article.tags))
           here == IF includes(text, term)
                     THEN 1 + (IF article.title # << >>
                                    /\ includes(toLowerCase(article.title), term)
                                 THEN 2 ELSE 0)
                     ELSE 0
       IN  here + Score(article, Tail(terms))

\* the title shown: the title, or the first line of the content cut at 50
DisplayTitle(article) ==
  IF article.title = << >> /\ article.content # << >>
    THEN LET firstLine == trim(article.content)
         IN  IF Len(firstLine) > 50
               THEN SubSeq(firstLine, 1, 47) \o <<".", ".", ".">>
               ELSE firstLine
    ELSE article.title

\* Array.prototype.sort((a, b) => b.score - a.score), which is stable
RECURSIVE SortByScore(_)
SortByScore(seq) ==
  IF Len(seq) <= 1 THEN seq
  ELSE LET sorted == SortByScore(Tail(seq))
           above == SelectSeq(sorted, LAMBDA r : r.score > Head(seq).score)
           rest == SelectSeq(sorted, LAMBDA r : r.score <= Head(seq).score)
       IN  above \o <<Head(seq)>> \o rest

\* .slice(0, 3)
TopThree(sorted) == SubSeq(sorted, 1, IF Len(sorted) < 3 THEN Len(sorted) ELSE 3)

\* searchKnowledge(query) for a query that is a string
searchKnowledge(query) ==
  IF knowledge_json = << >> THEN << >>
  ELSE
  LET knowledge == knowledge_json[1]
      terms == split(toLowerCase(query))
      results == [i \in 1..Len(knowledge) |->
                    [title |-> DisplayTitle(knowledge[i]),
                     content |-> knowledge[i].content,
                     tags |-> knowledge[i].tags,
                     score |-> Score(knowledge[i], terms)]]
  IN  TopThree(SortByScore(SelectSeq(results, LAMBDA r : r.score > 0)))

get_available_contractors(args) ==
  SelectSeq(contractors_json,
    LAMBDA c : \/ toLowerCase(c.service) = toLowerCase(args.trade)
               \/ includes(toLowerCase(c.name), toLowerCase(args.trade)))

(***************************************************************************)
(* Duplicate issue detector.  check_similar_issues runs up to its await of *)
(* compareIssuesWithLLM (CheckSimilarStart) and resumes when the judge     *)
(* call settles (check_similar_issues).                                    *)
(***************************************************************************)
\* a key the returned object does not have, for number-valued keys
NoCount == -1

\* ActiveOrders without the test of the tenant
ActiveOrders_AnyTenant(wos, tenant_id) ==
  SelectSeq(wos,
    LAMBDA wo : StatusLower(OrElse(wo.status, "")) \in {"assigned", "pending", "in_progress"})

\* ActiveOrders without the test of the status
ActiveOrders_AnyStatus(wos, tenant_id) ==
  SelectSeq(wos, LAMBDA wo : OrElse(wo.tenant_id, wo.tenantId) = tenant_id)

\* const activeOrders = workOrders.filter(...)
ActiveOrders(wos, tenant_id) ==
  SelectSeq(wos,
    LAMBDA wo : /\ OrElse(wo.tenant_id, wo.tenantId) = tenant_id
                /\ StatusLower(OrElse(wo.status, "")) \in {"assigned", "pending", "in_progress"})

\* const existingIssues = activeOrders.map(...)
ExistingIssues(activeOrders) ==
  [i \in 1..Len(activeOrders) |->
     [id |-> activeOrders[i].id,
      issue_summary |-> OrElse(activeOrders[i].issue_summary, activeOrders[i].issueDescription),
      trade |-> IF activeOrders[i].trade # << >> THEN activeOrders[i].trade ELSE <<"unknown">>,
      priority |-> activeOrders[i].priority,
      status |-> activeOrders[i].status,
      created_at |-> OrElseTime(activeOrders[i].created_at, activeOrders[i].createdAt)]]

\* existingIssues.map((o) => ({ id, issue_summary, trade }))
IssueBriefs(existingIssues) ==
  [i \in 1..Len(existingIssues) |->
     [id |-> existingIssues[i].id,
      issue_summary |-> existingIssues[i].issue_summary,
      trade |-> existingIssues[i].trade]]

CheckResult(has_similar, similar_order, error, count, issues) ==
  [has_similar |-> has_similar, similar_order |-> similar_order, error |-> error,
   active_orders_count |-> count, existing_issues |-> issues]

\* the return value of compareIssuesWithLLM for a settled judge call;
\* similar_order is << >> when find() returned undefined
compareIssuesWithLLM(existingIssues, verdict) ==
  IF verdict.threw
    THEN [threw |-> TRUE, has_similar |-> FALSE, similar_order |-> << >>]
  ELSE IF verdict.is_similar /\ verdict.matching_order_id # NoId
    THEN LET k == FindIndex({i \in 1..Len(existingIssues) :
                      existingIssues[i].id = verdict.matching_order_id})
         IN  [threw |-> FALSE, has_similar |-> TRUE,
              similar_order |-> IF k = 0 THEN << >> ELSE << existingIssues[k] >>]
  ELSE [threw |-> FALSE, has_similar |-> FALSE, similar_order |-> << >>]

\* check_similar_issues without its try/catch: the error of the judge call
\* leaves the handler and the dispatcher turns it into { error }
check_similar_issues_NoCatch(existingIssues, verdict) ==
  LET comparisonResult == compareIssuesWithLLM(existingIssues, verdict)
  IN  IF comparisonResult.threw \/ (comparisonResult.has_similar /\ comparisonResult.similar_order = << >>)
        THEN [error |-> "Request failed"]
      ELSE IF comparisonResult.has_similar
        THEN CheckResult(TRUE, comparisonResult.similar_order, UNDEF, NoCount, << >>)
      ELSE CheckResult(FALSE, << >>, UNDEF, Len(existingIssues), IssueBriefs(existingIssues))

\* check_similar_issues from the await on: the try block and its catch
check_similar_issues(existingIssues, verdict) ==
  LET comparisonResult == compareIssuesWithLLM(existingIssues, verdict)
      fallback == CheckResult(FALSE, << >>, "Could not perform semantic comparison",
                              Len(existingIssues), IssueBriefs(existingIssues))
  IN  IF comparisonResult.threw THEN fallback
      ELSE IF comparisonResult.has_similar
        THEN IF comparisonResult.similar_order = << >>
               THEN fallback  \* reading similar_order.issue_summary throws inside the try
               ELSE CheckResult(TRUE, comparisonResult.similar_order, UNDEF, NoCount, << >>)
      ELSE CheckResult(FALSE, << >>, UNDEF, Len(existingIssues), IssueBriefs(existingIssues))

\* the fast path: no active order, no judge call
NoActiveOrdersResult == CheckResult(FALSE, << >>, UNDEF, 0, << >>)

\* what the judge may answer: an error (transport failure or unparsable
\* content), or a verdict naming any id, null included
Verdicts ==
  {[threw |-> TRUE, is_similar |-> FALSE, matching_order_id |-> NoId]} \cup
  {[threw |-> FALSE, is_similar |-> s, matching_order_id |-> m] :
     s \in BOOLEAN, m \in 0..(MaxClock + 1)}

(***************************************************************************)
(* State.                                                                  *)
(***************************************************************************)
VARIABLES
  store,  \* work_orders.json: the list of work orders
  now,    \* the clock read by Date.now() and new Date()
  turn,   \* per request: the locals of chatHandler and its position
  \* per request, the locals of chatHandler that hold the conversation and
  \* the traces; only SpecTrace follows them
  messages,       \* req.body.messages
  conversation,   \* conversation
  tool_calls,     \* responseMessage.tool_calls of the loop pass
  allToolCalls,   \* allToolCalls
  allToolResults, \* allToolResults
  sent            \* the body given to res.json()

traceVars == << messages, conversation, tool_calls, allToolCalls, allToolResults, sent >>

vars == << store, now, turn, contractors_json, knowledge_json, traceVars >>

\* the value of the loop body's local `result` outside a loop pass
NoResult == [error |-> UNDEF]

\* the locals of a request that has not arrived (or has been answered)
IdleTurn ==
  [pc |-> "idle",           \* idle, awaiting_model, executing_tools,
                            \* awaiting_judge, tool_returned, done
   tenant |-> UNDEF,        \* tenant.id
   attachments |-> << >>,   \* req.body.attachments
   loopCount |-> 0,         \* loopCount
   remaining |-> 0,         \* tool calls of the current batch not yet executed
   inFlight |-> 0,          \* handlers of this turn that have begun and not
                            \* returned their result to the conversation
   batches |-> 0,           \* engine answers that carried tool calls
   checked |-> FALSE,       \* a check_similar_issues call of this turn has returned
   judging |-> FALSE,       \* a compareIssuesWithLLM call of this turn is in flight
   existingIssues |-> << >>,\* existingIssues of the check_similar_issues call
   verdict |-> << >>,       \* what the judge call settled with, once it has
   functionName |-> UNDEF,  \* functionName of the loop pass
   args |-> << >>,          \* args of the loop pass, once parsed
   result |-> NoResult,     \* result of the loop pass
   response |-> UNDEF]      \* what res.json() sent

\* the conversation and the traces of a request that has not arrived
NoTrace ==
  /\ messages = [t \in Turns |-> << >>]
  /\ conversation = [t \in Turns |-> << >>]
  /\ tool_calls = [t \in Turns |-> << >>]
  /\ allToolCalls = [t \in Turns |-> << >>]
  /\ allToolResults = [t \in Turns |-> << >>]
  /\ sent = [t \in Turns |-> << >>]

Init ==
  /\ store = << >>
  /\ now = 1
  /\ turn = [t \in Turns |-> IdleTurn]
  /\ contractors_json = Contractors
  /\ knowledge_json = << Knowledge >>
  /\ NoTrace

\* no request is in the middle of a synchronous stretch of code
NoSync == \A t \in Turns : turn[t].pc # "tool_returned"

(***************************************************************************)
(* Inputs: requests and engine answers.                                    *)
(***************************************************************************)
\* req.body.tenantId: a known tenant or an id tenants.json does not hold
TenantIdArgs == {Tenants[i].id : i \in 1..Len(Tenants)} \cup {"tenant-999"}

\* req.body.attachments
AttachmentArgs == {<< >>}

WorkOrderIdArgs == 0..MaxClock

\* the argument query left out
NoQuery == <<UNDEF>>

NoArgs ==
  [malformed |-> FALSE, tenant_id |-> UNDEF, new_issue_description |-> UNDEF,
   issue_summary |-> UNDEF, contractor_id |-> NoContractorArg, priority |-> UNDEF,
   attachments |-> << >>, status_filter |-> UNDEF, work_order_id |-> NoId,
   status |-> UNDEF, resolution_notes |-> UNDEF, trade |-> << >>, query |-> NoQuery]

Call(name, args) == [name |-> name, args |-> args]

MalformedCalls == {Call("create_work_order", [NoArgs EXCEPT !.malformed = TRUE])}

UnknownCalls == {Call("send_email", NoArgs)}

CheckCalls ==
  {Call("check_similar_issues",
        [NoArgs EXCEPT !.tenant_id = "tenant-999", !.new_issue_description = d]) :
     d \in {UNDEF, "tap leaks"}}

CreateCalls ==
  {Call("create_work_order",
        [NoArgs EXCEPT !.tenant_id = "tenant-999", !.issue_summary = "tap drips",
                       !.contractor_id = c, !.priority = "High"]) :
     c \in {<<"c", "1">>, <<"z">>, NoContractorArg}}

\* search_knowledge_base without a query, and with one of two terms
SearchCalls ==
  {Call("search_knowledge_base", [NoArgs EXCEPT !.query = q]) :
     q \in {NoQuery, <<"G", "a", "s", " ", "z">>}}

ReadCalls ==
  {Call("get_available_contractors", [NoArgs EXCEPT !.trade = <<"g", "a", "s">>])} \cup
  {Call("get_work_orders", [NoArgs EXCEPT !.status_filter = f]) : f \in {UNDEF, "assigned"}}

\* status left out, a value outside the enumeration, an active and a
\* terminal status
UpdateStatusArgs == {UNDEF, "cancelled", "in_progress", "completed"}

UpdateCalls ==
  {Call("update_work_order", [NoArgs EXCEPT !.work_order_id = w, !.status = st]) :
     w \in WorkOrderIdArgs, st \in UpdateStatusArgs}

CompleteCalls ==
  {Call("complete_work_order", [NoArgs EXCEPT !.work_order_id = w, !.resolution_notes = n]) :
     w \in WorkOrderIdArgs, n \in {UNDEF, "", "fixed"}}

DeleteCalls ==
  {Call("delete_work_order", [NoArgs EXCEPT !.work_order_id = w]) : w \in WorkOrderIdArgs}

\* the tool calls of Spec: the branches of the dispatcher that fail, await,
\* add and remove
LoopCalls ==
  MalformedCalls \cup UnknownCalls \cup CheckCalls \cup CreateCalls \cup DeleteCalls

\* the tool calls of SpecOrders: every handler with every argument
Calls ==
  MalformedCalls \cup UnknownCalls \cup SearchCalls \cup CheckCalls \cup CreateCalls \cup
  ReadCalls \cup
  UpdateCalls \cup CompleteCalls \cup DeleteCalls

PatchStatusArgs == {UNDEF, "cancelled"} \cup validStatuses

(***************************************************************************)
(* chatHandler.                                                            *)
(***************************************************************************)
\* tenants.find((t) => t.id === tenantId) || tenants[0]
FindTenant(tenantId) ==
  LET k == FindIndex({i \in 1..Len(Tenants) : Tenants[i].id = tenantId})
  IN  IF k # 0 THEN Tenants[k] ELSE Tenants[1]

\* InjectContext without `tenant_id: tenant.id`: the handlers get the
\* tenant_id of the engine's arguments
InjectContext_Trusting(call, tr) ==
  IF call.name = "create_work_order"
    THEN [call.args EXCEPT !.attachments = tr.attachments]
    ELSE call.args

\* InjectContext without `attachments: attachments || []`: create_work_order
\* gets the attachments of the engine's arguments
InjectContext_EngineAttachments(call, tr) ==
  IF call.name \in {"create_work_order", "check_similar_issues", "get_work_orders"}
    THEN [call.args EXCEPT !.tenant_id = tr.tenant]
    ELSE call.args

\* { ...args, tenant_id: tenant.id, attachments: attachments || [] }
InjectContext(call, tr) ==
  IF call.name = "create_work_order"
    THEN [call.args EXCEPT !.tenant_id = tr.tenant, !.attachments = tr.attachments]
  ELSE IF call.name \in {"check_similar_issues", "get_work_orders"}
    THEN [call.args EXCEPT !.tenant_id = tr.tenant]
  ELSE call.args

\* the if/else chain over functionName for the handlers that do not await,
\* inside try/catch
Invoke(call, tr, wos, clock) ==
  LET args == InjectContext(call, tr)
  IN  CASE call.name = "search_knowledge_base" ->
             IF knowledge_json # << >> /\ args.query = NoQuery
               THEN \* query.toLowerCase(), after `if (!knowledge) return []`
                    Threw(wos, "Cannot read properties of undefined")
               ELSE Returned(wos, [articles |-> searchKnowledge(args.query)])
        [] call.name = "get_available_contractors" ->
             Returned(wos, [contractors |-> get_available_contractors(args)])
        [] call.name = "create_work_order" -> create_work_order(wos, args, clock)
        [] call.name = "get_work_orders" -> get_work_orders(wos, args)
        [] call.name = "update_work_order" -> update_work_order(wos, args, clock)
        [] call.name = "complete_work_order" -> complete_work_order(wos, args, clock)
        [] call.name = "delete_work_order" -> delete_work_order(wos, args)
        [] OTHER -> Returned(wos, [error |-> "Unknown tool"])

\* the request arrives: the code up to the first await of the engine
StartTurn(t, tenantId, atts) ==
  /\ NoSync
  /\ turn[t].pc = "idle"
  /\ turn' = [turn EXCEPT ![t] =
       [IdleTurn EXCEPT !.pc = "awaiting_model",
                        !.tenant = FindTenant(tenantId).id,
                        !.attachments = atts,
                        !.loopCount = 1]]
  /\ UNCHANGED << store, now, contractors_json, knowledge_json >>

\* LoopOrStop with the loop test written loopCount <= MAX_LOOPS
LoopOrStop_OffByOne(tr) ==
  IF tr.loopCount <= MAX_LOOPS
    THEN [tr EXCEPT !.pc = "awaiting_model", !.loopCount = @ + 1]
    ELSE [tr EXCEPT !.pc = "done", !.response = "Agent loop limit exceeded"]

\* the top of the while loop after a batch: the next engine call, or the
\* loop limit
LoopOrStop(tr) ==
  IF tr.loopCount < MAX_LOOPS
    THEN [tr EXCEPT !.pc = "awaiting_model", !.loopCount = @ + 1]
    ELSE [tr EXCEPT !.pc = "done", !.response = "Agent loop limit exceeded"]

\* PcOnAwait with the await of check_similar_issues left out: the for loop
\* goes on while the judge call is in flight
PcOnAwait_NotAwaited == "executing_tools"

\* the position of a loop pass that awaits the judge
PcOnAwait == "awaiting_judge"

\* allToolResults.push(...) and conversation.push(...) of a result
PushResult(tr, name, result) ==
  [tr EXCEPT !.pc = "tool_returned", !.inFlight = @ - 1, !.remaining = @ - 1,
             !.functionName = name, !.result = result, !.judging = FALSE]

\* the engine answers without tool calls
EngineFinal(t) ==
  /\ NoSync
  /\ turn[t].pc = "awaiting_model"
  /\ turn' = [turn EXCEPT ![t].pc = "done", ![t].response = "message"]
  /\ UNCHANGED << store, now, contractors_json, knowledge_json >>

\* the engine answers with k tool calls
EngineToolCalls(t, k) ==
  /\ NoSync
  /\ turn[t].pc = "awaiting_model"
  /\ LET got == [turn[t] EXCEPT !.batches = @ + 1, !.remaining = k]
     IN  turn' = [turn EXCEPT ![t] =
           IF k = 0 THEN LoopOrStop(got) ELSE [got EXCEPT !.pc = "executing_tools"]]
  /\ UNCHANGED << store, now, contractors_json, knowledge_json >>

\* the engine call rejects: the outer catch
EngineFails(t) ==
  /\ NoSync
  /\ turn[t].pc = "awaiting_model"
  /\ turn' = [turn EXCEPT ![t].pc = "done", ![t].response = "Internal Server Error"]
  /\ UNCHANGED << store, now, contractors_json, knowledge_json >>

\* one pass of the for loop over tool_calls, from its start to the push of
\* the result or to the await inside check_similar_issues
Dispatch(t, call) ==
  /\ NoSync
  /\ turn[t].pc = "executing_tools"
  /\ turn[t].remaining > 0
  /\ call.name = "create_work_order" => Len(store) < MaxOrders
  /\ IF call.args.malformed
       THEN \* JSON.parse throws outside the inner try: the outer catch
            /\ turn' = [turn EXCEPT ![t].pc = "done",
                                    ![t].response = "Internal Server Error"]
            /\ UNCHANGED store
     ELSE IF call.name = "check_similar_issues"
       THEN LET args == InjectContext(call, turn[t])
                activeOrders == ActiveOrders(store, args.tenant_id)
                begun == [turn[t] EXCEPT !.inFlight = @ + 1, !.args = << call.args >>]
            IN  /\ turn' = [turn EXCEPT ![t] =
                      IF Len(activeOrders) = 0
                        THEN PushResult([begun EXCEPT !.checked = TRUE],
                                        call.name, NoActiveOrdersResult)
                        ELSE [begun EXCEPT !.pc = PcOnAwait,
                                           !.judging = TRUE,
                                           !.existingIssues = ExistingIssues(activeOrders)]]
                /\ UNCHANGED store
     ELSE LET outcome == Invoke(call, turn[t], store, now)
          IN  /\ store' = outcome.store
              /\ turn' = [turn EXCEPT ![t] =
                    PushResult([turn[t] EXCEPT !.inFlight = @ + 1, !.args = << call.args >>],
                               call.name, outcome.result)]
  /\ UNCHANGED << now, contractors_json, knowledge_json >>

\* the judge call of check_similar_issues settles and the handler returns
JudgeSettles(t, verdict) ==
  /\ NoSync
  /\ turn[t].judging
  /\ turn' = [turn EXCEPT ![t] =
       PushResult([turn[t] EXCEPT !.checked = TRUE, !.verdict = << verdict >>],
                  "check_similar_issues",
                  check_similar_issues(turn[t].existingIssues, verdict))]
  /\ UNCHANGED << store, now, contractors_json, knowledge_json >>

\* the end of a loop pass: the next tool call of the batch, or the top of
\* the while loop
Continue(t) ==
  /\ turn[t].pc = "tool_returned"
  /\ LET left == [turn[t] EXCEPT !.functionName = UNDEF, !.args = << >>,
                                 !.result = NoResult, !.existingIssues = << >>,
                                 !.verdict = << >>]
     IN  turn' = [turn EXCEPT ![t] =
           IF left.remaining = 0 THEN LoopOrStop(left)
           ELSE [left EXCEPT !.pc = "executing_tools"]]
  /\ UNCHANGED << store, now, contractors_json, knowledge_json >>

\* the response has been sent; the next request may arrive
EndTurn(t) ==
  /\ NoSync
  /\ turn[t].pc = "done"
  /\ turn' = [turn EXCEPT ![t] = IdleTurn]
  /\ UNCHANGED << store, now, contractors_json, knowledge_json >>

(***************************************************************************)
(* PATCH /api/work-orders/:id                                              *)
(***************************************************************************)
PatchWorkOrder(workOrderId, status) ==
  LET orderIndex == FindIndex({i \in 1..Len(store) : store[i].id = workOrderId})
  IN  /\ NoSync
      /\ status \notin {UNDEF, ""}
      /\ status \in validStatuses
      /\ orderIndex # 0
      /\ store' = [store EXCEPT ![orderIndex] =
            [@ EXCEPT !.status = status,
                      !.updated_at = toISOString(now),
                      !.resolved_at = IF status \in {"solved", "completed"} THEN toISOString(now) ELSE @]]
      /\ UNCHANGED << now, turn, contractors_json, knowledge_json >>

\* time passes
Tick ==
  /\ NoSync
  /\ now < MaxClock
  /\ now' = now + 1
  /\ UNCHANGED << store, turn, contractors_json, knowledge_json >>

(***************************************************************************)
(* Specifications.                                                         *)
(***************************************************************************)
\* the conversation and the traces are not followed
Untraced == UNCHANGED traceVars

Arrive(t) ==
  \E tenantId \in TenantIdArgs, atts \in AttachmentArgs : StartTurn(t, tenantId, atts)

Patch(statuses) ==
  \E w \in WorkOrderIdArgs, st \in statuses : PatchWorkOrder(w, st)

\* Spec: one chat request at a time with an engine that answers anything,
\* tool calls drawn from LoopCalls.
Next ==
  \/ Arrive("r1") /\ Untraced
  \/ EngineFinal("r1") /\ Untraced
  \/ \E k \in 0..MaxBatch : EngineToolCalls("r1", k) /\ Untraced
  \/ EngineFails("r1") /\ Untraced
  \/ \E call \in LoopCalls : Dispatch("r1", call) /\ Untraced
  \/ \E verdict \in Verdicts : JudgeSettles("r1", verdict) /\ Untraced
  \/ Continue("r1") /\ Untraced
  \/ EndTurn("r1") /\ Untraced
  \/ Tick /\ Untraced

Spec == Init /\ [][Next]_vars

\* SpecOrders: chat requests of one tool call each (the engine asks for one
\* tool call, then answers), tool calls drawn from Calls; PATCH requests at
\* any time.  Every sequence of handler calls is a sequence of such turns.
OneCall(t) == turn[t].loopCount = 1 /\ EngineToolCalls(t, 1)

ThenFinal(t) == turn[t].loopCount = 2 /\ EngineFinal(t)

DispatchWithin(t, call, cap) ==
  /\ call.name = "create_work_order" => Len(store) < cap
  /\ Dispatch(t, call)

NextOrders ==
  \/ Arrive("r1") /\ Untraced
  \/ OneCall("r1") /\ Untraced
  \/ ThenFinal("r1") /\ Untraced
  \/ \E call \in Calls : DispatchWithin("r1", call, MaxLifecycleOrders) /\ Untraced
  \/ \E verdict \in Verdicts : JudgeSettles("r1", verdict) /\ Untraced
  \/ Continue("r1") /\ Untraced
  \/ EndTurn("r1") /\ Untraced
  \/ Patch(PatchStatusArgs) /\ Untraced
  \/ Tick /\ Untraced

SpecOrders == Init /\ [][NextOrders]_vars

\* SpecContractors: create_work_order with any contractors.json of at most
\* MaxContractors records, among them records whose name is the id of
\* another, names that differ by case only and names that contain others.
ContractorPool ==
  {[id |-> id, name |-> name, service |-> id \o name] :
     id \in {<<"c", "1">>, <<"a", "l">>},
     name \in {<<"A", "l">>, <<"A", "l", "f">>, <<"c", "1">>}}

ContractorLists ==
  UNION {[1..n -> ContractorPool] : n \in 0..MaxContractors}

\* an id, an id that is also a name, a name in another case, a part of a
\* name, a string no name contains, the empty string, and no argument
ContractorArgs ==
  {<<"c", "1">>, <<"a", "l">>, <<"A", "L">>, <<"l", "f">>, <<"z">>, << >>, NoContractorArg}

ContractorCalls ==
  {Call("create_work_order",
        [NoArgs EXCEPT !.issue_summary = "tap drips", !.contractor_id = c,
                       !.priority = "High"]) :
     c \in ContractorArgs}

InitContractors ==
  /\ store = << >>
  /\ now = 1
  /\ turn = [t \in Turns |-> IdleTurn]
  /\ contractors_json \in ContractorLists
  /\ knowledge_json = << Knowledge >>
  /\ NoTrace

NextContractors ==
  \/ Arrive("r1") /\ Untraced
  \/ OneCall("r1") /\ Untraced
  \/ ThenFinal("r1") /\ Untraced
  \/ \E call \in ContractorCalls : DispatchWithin("r1", call, MaxLifecycleOrders) /\ Untraced
  \/ Continue("r1") /\ Untraced
  \/ EndTurn("r1") /\ Untraced

SpecContractors == InitContractors /\ [][NextContractors]_vars

\* SpecAttachments: requests with and without photos; the engine puts
\* attachments of its own in the arguments of create_work_order.
PhotoArgs == {<< >>, <<"photo">>}

AttachmentCalls ==
  {Call("create_work_order",
        [NoArgs EXCEPT !.issue_summary = "tap drips", !.contractor_id = <<"c", "1">>,
                       !.priority = "High", !.attachments = <<"forged">>]),
   Call("check_similar_issues", [NoArgs EXCEPT !.new_issue_description = "tap leaks"]),
   Call("get_work_orders", NoArgs)} \cup
  {Call(name, [NoArgs EXCEPT !.work_order_id = w, !.status = "in_progress"]) :
     name \in {"update_work_order", "complete_work_order", "delete_work_order"},
     w \in WorkOrderIdArgs}

ArriveWithPhotos(t) == \E atts \in PhotoArgs : StartTurn(t, Tenants[1].id, atts)

NextAttachments ==
  \/ ArriveWithPhotos("r1") /\ Untraced
  \/ OneCall("r1") /\ Untraced
  \/ ThenFinal("r1") /\ Untraced
  \/ \E call \in AttachmentCalls : DispatchWithin("r1", call, MaxLifecycleOrders) /\ Untraced
  \/ \E verdict \in Verdicts : JudgeSettles("r1", verdict) /\ Untraced
  \/ Continue("r1") /\ Untraced
  \/ EndTurn("r1") /\ Untraced
  \/ Patch({"solved"}) /\ Untraced

SpecAttachments == Init /\ [][NextAttachments]_vars

(***************************************************************************)
(* chatHandler with its conversation and its traces.                       *)
(***************************************************************************)
MaxHistory == 5

\* tool calls the engine asks for in one traced turn
MaxTraceCalls == 2

MAX_HISTORY_MESSAGES == 4

\* req.body.messages of n messages: the i-th utterance, tenant and agent in
\* turn
History(n) ==
  [i \in 1..n |-> [role |-> IF i % 2 = 1 THEN "user" ELSE "assistant", content |-> i]]

\* { role: "system", content: systemPrompt }
SystemMessage == [role |-> "system", content |-> 0]

\* Array.prototype.slice(start) with a negative start
slice(list, start) ==
  LET from == IF Len(list) + start < 0 THEN 0 ELSE Len(list) + start
  IN  SubSeq(list, from + 1, Len(list))

\* recentMessages with slice(0, MAX_HISTORY_MESSAGES): the oldest messages
recentMessages_Oldest(list) ==
  IF Len(list) > MAX_HISTORY_MESSAGES
    THEN SubSeq(list, 1, MAX_HISTORY_MESSAGES)
    ELSE list

recentMessages(list) ==
  IF Len(list) > MAX_HISTORY_MESSAGES
    THEN slice(list, -MAX_HISTORY_MESSAGES)
    ELSE list

\* the engine's answer with tool calls
AssistantMessage(batch) == [role |-> "assistant", content |-> 0, tool_calls |-> batch]

\* allToolCalls.push(...) that keeps the first tool call of the batch only
PushToolCalls_FirstOnly(all, batch) ==
  IF batch = << >> THEN all ELSE Append(all, batch[1])

\* allToolCalls.push(...responseMessage.tool_calls)
PushToolCalls(all, batch) == all \o batch

\* the entry of allToolResults for a loop pass that has its result
ToolResultEntry(tr) == [name |-> tr.functionName, content |-> tr.result]

\* the message of the conversation for the result of toolCall
ToolMessage(toolCall, tr) ==
  [tool_call_id |-> toolCall.id, role |-> "tool", name |-> tr.functionName,
   content |-> tr.result]

\* the tool call of the loop pass
CurrentToolCall(t) == tool_calls[t][Len(tool_calls[t]) - turn[t].remaining + 1]

\* res.json({ message, toolCalls, toolResults }), or
\* res.status(500).json({ error })
Body(tr, calls, results) ==
  IF tr.response = "message"
    THEN [message |-> [role |-> "assistant", content |-> 0],
          toolCalls |-> calls, toolResults |-> results]
    ELSE [error |-> tr.response]

\* the response, when the step sends it
Respond(t) ==
  sent' = [sent EXCEPT ![t] =
    IF turn'[t].pc = "done"
      THEN << Body(turn'[t], allToolCalls'[t], allToolResults'[t]) >>
      ELSE @]

\* Fold that leaves a failed call out of the conversation
Fold_ErrorsDropped(t) ==
  IF turn'[t].pc = "tool_returned"
    THEN /\ allToolResults' = [allToolResults EXCEPT ![t] = Append(@, ToolResultEntry(turn'[t]))]
         /\ conversation' = [conversation EXCEPT ![t] =
              IF "error" \in DOMAIN turn'[t].result
                THEN @
                ELSE Append(@, ToolMessage(CurrentToolCall(t), turn'[t]))]
    ELSE UNCHANGED << allToolResults, conversation >>

\* the pushes of a loop pass that has its result
Fold(t) ==
  IF turn'[t].pc = "tool_returned"
    THEN /\ allToolResults' = [allToolResults EXCEPT ![t] = Append(@, ToolResultEntry(turn'[t]))]
         /\ conversation' = [conversation EXCEPT ![t] =
              Append(@, ToolMessage(CurrentToolCall(t), turn'[t]))]
    ELSE UNCHANGED << allToolResults, conversation >>

StartTurnTrace(t, tenantId, n) ==
  /\ StartTurn(t, tenantId, << >>)
  /\ messages' = [messages EXCEPT ![t] = History(n)]
  /\ conversation' = [conversation EXCEPT ![t] =
       << SystemMessage >> \o recentMessages(History(n))]
  /\ UNCHANGED << tool_calls, allToolCalls, allToolResults, sent >>

EngineFinalTrace(t) ==
  /\ EngineFinal(t)
  /\ UNCHANGED << messages, conversation, tool_calls, allToolCalls, allToolResults >>
  /\ Respond(t)

\* the engine answers with the tool calls `calls`, which it numbers
EngineToolCallsTrace(t, calls) ==
  /\ Len(allToolCalls[t]) + Len(calls) <= MaxTraceCalls
  /\ EngineToolCalls(t, Len(calls))
  /\ LET batch == [i \in 1..Len(calls) |->
                     [id |-> << turn[t].batches + 1, i >>,
                      name |-> calls[i].name, args |-> calls[i].args]]
     IN  /\ conversation' = [conversation EXCEPT ![t] = Append(@, AssistantMessage(batch))]
         /\ allToolCalls' = [allToolCalls EXCEPT ![t] = PushToolCalls(@, batch)]
         /\ tool_calls' = [tool_calls EXCEPT ![t] = batch]
  /\ UNCHANGED << messages, allToolResults >>
  /\ Respond(t)

EngineFailsTrace(t) ==
  /\ EngineFails(t)
  /\ UNCHANGED << messages, conversation, tool_calls, allToolCalls, allToolResults >>
  /\ Respond(t)

DispatchTrace(t) ==
  /\ turn[t].pc = "executing_tools"
  /\ turn[t].remaining > 0
  /\ Dispatch(t, CurrentToolCall(t))
  /\ Fold(t)
  /\ UNCHANGED << messages, tool_calls, allToolCalls >>
  /\ Respond(t)

JudgeSettlesTrace(t, verdict) ==
  /\ JudgeSettles(t, verdict)
  /\ Fold(t)
  /\ UNCHANGED << messages, tool_calls, allToolCalls, sent >>

ContinueTrace(t) ==
  /\ Continue(t)
  /\ UNCHANGED << messages, conversation, tool_calls, allToolCalls, allToolResults >>
  /\ Respond(t)

\* the handler has returned: its locals are gone
EndTurnTrace(t) ==
  /\ EndTurn(t)
  /\ messages' = [messages EXCEPT ![t] = << >>]
  /\ conversation' = [conversation EXCEPT ![t] = << >>]
  /\ tool_calls' = [tool_calls EXCEPT ![t] = << >>]
  /\ allToolCalls' = [allToolCalls EXCEPT ![t] = << >>]
  /\ allToolResults' = [allToolResults EXCEPT ![t] = << >>]
  /\ sent' = [sent EXCEPT ![t] = << >>]

\* the batches of at most MaxBatch tool calls drawn from calls
Batches(calls) == UNION {[1..k -> calls] : k \in 0..MaxBatch}

\* SpecTrace: one chat request at a time, with a history of any length up to
\* MaxHistory, whose conversation and traces are followed; the tool calls
\* are an unknown tool, arguments that do not parse, a duplicate check (which
\* awaits the judge), a creation that throws and one that succeeds.
TraceCalls ==
  UnknownCalls \cup MalformedCalls \cup
  {Call("check_similar_issues", [NoArgs EXCEPT !.new_issue_description = "tap leaks"])} \cup
  {Call("create_work_order",
        [NoArgs EXCEPT !.tenant_id = "tenant-999", !.issue_summary = "tap drips",
                       !.contractor_id = c, !.priority = "High"]) :
     c \in {<<"c", "1">>, NoContractorArg}}

\* the judge call rejects, or finds no similar issue
TraceVerdicts ==
  {[threw |-> th, is_similar |-> FALSE, matching_order_id |-> NoId] : th \in BOOLEAN}

NextTrace ==
  \/ \E n \in 0..MaxHistory : StartTurnTrace("r1", Tenants[1].id, n)
  \/ EngineFinalTrace("r1")
  \/ \E calls \in Batches(TraceCalls) : EngineToolCallsTrace("r1", calls)
  \/ EngineFailsTrace("r1")
  \/ DispatchTrace("r1")
  \/ \E verdict \in TraceVerdicts : JudgeSettlesTrace("r1", verdict)
  \/ ContinueTrace("r1")
  \/ EndTurnTrace("r1")

SpecTrace == Init /\ [][NextTrace]_vars

\* SpecRace: two chat requests at the same time, one of each tenant, each
\* of one tool call that creates a work order or is unknown; the clock may
\* or may not move between them.
RaceCalls ==
  UnknownCalls \cup
  {Call("create_work_order",
        [NoArgs EXCEPT !.issue_summary = "tap drips", !.contractor_id = <<"c", "1">>,
                       !.priority = "High"])}

\* the tenant whose request t is
TenantOf(t) == IF t = "r1" THEN Tenants[1].id ELSE Tenants[2].id

NextRace ==
  \/ \E t \in Turns : StartTurnTrace(t, TenantOf(t), 1)
  \/ \E t \in Turns, call \in RaceCalls :
       turn[t].loopCount = 1 /\ EngineToolCallsTrace(t, << call >>)
  \/ \E t \in Turns : turn[t].loopCount = 2 /\ EngineFinalTrace(t)
  \/ \E t \in Turns : DispatchTrace(t)
  \/ \E t \in Turns : ContinueTrace(t)
  \/ \E t \in Turns : EndTurnTrace(t)
  \/ Tick /\ Untraced

SpecRace == Init /\ [][NextRace]_vars

\* SpecKnowledge: chat requests of one search_knowledge_base call each,
\* over every knowledge.json of at most MaxArticles articles drawn from
\* Articles, and over knowledge.json missing.
MaxArticles == 4

\* an article with a title, one without a title, one found by its tag
Articles ==
  {[title |-> <<"G", "a", "s">>, content |-> <<"f">>, tags |-> << <<"z">> >>],
   [title |-> << >>, content |-> <<"g", "a", "s", " ", "z">>, tags |-> << >>],
   [title |-> <<"z">>, content |-> << >>, tags |-> << <<"g", "a", "s">> >>]}

Corpora == UNION {[1..n -> Articles] : n \in 0..MaxArticles}

\* the query left out, empty, of one word, of two words, with whitespace
\* before or after the word, and a word no article has
Queries ==
  {NoQuery, << >>, <<"f">>, <<"G", "a", "s", " ", " ", "z">>, <<" ", "g", "a", "s">>,
   <<"q", " ">>}

KnowledgeCalls ==
  {Call("search_knowledge_base", [NoArgs EXCEPT !.query = q]) : q \in Queries}

InitKnowledge ==
  /\ store = << >>
  /\ now = 1
  /\ turn = [t \in Turns |-> IdleTurn]
  /\ contractors_json = Contractors
  /\ knowledge_json \in {<< >>} \cup {<< corpus >> : corpus \in Corpora}
  /\ NoTrace

NextKnowledge ==
  \/ Arrive("r1") /\ Untraced
  \/ OneCall("r1") /\ Untraced
  \/ ThenFinal("r1") /\ Untraced
  \/ \E call \in KnowledgeCalls : Dispatch("r1", call) /\ Untraced
  \/ Continue("r1") /\ Untraced
  \/ EndTurn("r1") /\ Untraced

SpecKnowledge == InitKnowledge /\ [][NextKnowledge]_vars

\* SpecUpdate: chat requests of one tool call each that create work orders
\* and update them, with every choice of the fields provided.
FieldUpdateCalls ==
  {Call("update_work_order",
        [NoArgs EXCEPT !.work_order_id = w, !.issue_summary = s, !.priority = p,
                       !.status = st]) :
     w \in WorkOrderIdArgs, s \in {UNDEF, "tap fixed"}, p \in {UNDEF, "Low"},
     st \in {UNDEF, "in_progress"}}

OneCreateCall ==
  {Call("create_work_order",
        [NoArgs EXCEPT !.issue_summary = "tap drips", !.contractor_id = <<"c", "1">>,
                       !.priority = "High"])}

NextUpdate ==
  \/ Arrive("r1") /\ Untraced
  \/ OneCall("r1") /\ Untraced
  \/ ThenFinal("r1") /\ Untraced
  \/ \E call \in OneCreateCall \cup FieldUpdateCalls : Dispatch("r1", call) /\ Untraced
  \/ Continue("r1") /\ Untraced
  \/ EndTurn("r1") /\ Untraced
  \/ Tick /\ Untraced

SpecUpdate == Init /\ [][NextUpdate]_vars

\* SpecLegacy: work_orders.json holds records written with the older field
\* names (tenantId, issueDescription, contractorId, createdAt) when the
\* server starts; chat requests of one tool call each list the orders, with
\* and without a status filter, and create orders.
LegacyOrders ==
  {[id |-> IF tenantId = Tenants[1].id THEN 100 ELSE 200,
    tenant_id |-> UNDEF, tenantId |-> tenantId,
    contractor_id |-> NoContractorArg, contractorId |-> <<"c", "1">>,
    issue_summary |-> UNDEF, issueDescription |-> "old leak",
    contractor_name |-> <<"A", "l">>, trade |-> <<"g", "a", "s">>,
    priority |-> "Low", status |-> status,
    created_at |-> UNSET, createdAt |-> SET,
    attachments |-> << >>, updated_at |-> UNSET, resolved_at |-> UNSET,
    resolution_notes |-> UNDEF] :
     tenantId \in {Tenants[1].id, Tenants[2].id}, status \in {"Pending", "assigned"}}

\* status_filter left out, empty, and written in another case than the
\* status of the records
ListCalls ==
  {Call("get_work_orders", [NoArgs EXCEPT !.tenant_id = Tenants[2].id, !.status_filter = f]) :
     f \in {UNDEF, "", "Assigned", "pending"}}

InitLegacy ==
  /\ store \in UNION {[1..n -> LegacyOrders] : n \in 0..MaxOrders}
  /\ now = 1
  /\ turn = [t \in Turns |-> IdleTurn]
  /\ contractors_json = Contractors
  /\ knowledge_json = << Knowledge >>
  /\ NoTrace

NextLegacy ==
  \/ Arrive("r1") /\ Untraced
  \/ OneCall("r1") /\ Untraced
  \/ ThenFinal("r1") /\ Untraced
  \/ \E call \in OneCreateCall \cup ListCalls : Dispatch("r1", call) /\ Untraced
  \/ Continue("r1") /\ Untraced
  \/ EndTurn("r1") /\ Untraced

SpecLegacy == InitLegacy /\ [][NextLegacy]_vars

\* SpecDuplicates: two chat requests of one tenant at the same time that
\* report the same problem.  The engine asks for check_similar_issues
\* first and for create_work_order only when the check of its turn returned
\* has_similar = false; the judge is right: every active order of the
\* tenant is about this problem, so it names the first of them.
CheckFirstCall ==
  Call("check_similar_issues", [NoArgs EXCEPT !.new_issue_description = "tap drips"])

\* the check of turn t returned has_similar = false
ClearedToCreate(t) ==
  /\ Len(allToolResults[t]) = 1
  /\ allToolResults[t][1].name = "check_similar_issues"
  /\ ~allToolResults[t][1].content.has_similar

CorrectVerdict(existingIssues) ==
  [threw |-> FALSE, is_similar |-> TRUE, matching_order_id |-> existingIssues[1].id]

NextDuplicates ==
  \/ \E t \in Turns : StartTurnTrace(t, Tenants[1].id, 1)
  \/ \E t \in Turns : turn[t].loopCount = 1 /\ EngineToolCallsTrace(t, << CheckFirstCall >>)
  \/ \E t \in Turns, call \in OneCreateCall :
       turn[t].loopCount = 2 /\ ClearedToCreate(t) /\ EngineToolCallsTrace(t, << call >>)
  \/ \E t \in Turns : turn[t].loopCount >= 2 /\ EngineFinalTrace(t)
  \/ \E t \in Turns : DispatchTrace(t)
  \/ \E t \in Turns :
       turn[t].judging /\ JudgeSettlesTrace(t, CorrectVerdict(turn[t].existingIssues))
  \/ \E t \in Turns : ContinueTrace(t)
  \/ \E t \in Turns : EndTurnTrace(t)
  \/ Tick /\ Untraced

SpecDuplicates == Init /\ [][NextDuplicates]_vars

\* SpecTenants: two chat requests of one tool call each; request r1 names
\* the second tenant of tenants.json, request r2 an id tenants.json does
\* not hold.  The tool calls are those that store or read the orders of a
\* tenant.
RequestTenantId(t) == IF t = "r1" THEN Tenants[2].id ELSE "tenant-999"

TenantCalls ==
  OneCreateCall \cup
  {Call("get_work_orders", NoArgs)} \cup
  {Call("check_similar_issues", [NoArgs EXCEPT !.new_issue_description = "tap leaks"])}

NextTenants ==
  \/ \E t \in Turns : StartTurn(t, RequestTenantId(t), << >>) /\ Untraced
  \/ \E t \in Turns : OneCall(t) /\ Untraced
  \/ \E t \in Turns : ThenFinal(t) /\ Untraced
  \/ \E t \in Turns, call \in TenantCalls : Dispatch(t, call) /\ Untraced
  \/ \E t \in Turns, verdict \in TraceVerdicts : JudgeSettles(t, verdict) /\ Untraced
  \/ \E t \in Turns : Continue(t) /\ Untraced
  \/ \E t \in Turns : EndTurn(t) /\ Untraced
  \/ Tick /\ Untraced

SpecTenants == Init /\ [][NextTenants]_vars

\* Disk faults.  readJSON gives null when readFileSync or JSON.parse throws
\* and the handlers go on with `readJSON("work_orders.json") || []`;
\* writeJSON gives false when writeFileSync throws and leaves the file as
\* it was.  readOk and writeOk are the outcomes of the two calls.
DiskCalls ==
  OneCreateCall \cup
  {Call("update_work_order", [NoArgs EXCEPT !.work_order_id = w, !.status = "in_progress"]) :
     w \in 1..MaxClock} \cup
  {Call("complete_work_order", [NoArgs EXCEPT !.work_order_id = w]) : w \in 1..MaxClock} \cup
  {Call("delete_work_order", [NoArgs EXCEPT !.work_order_id = w]) : w \in 1..MaxClock}

\* one pass of the for loop over tool_calls for a handler that reads and
\* replaces work_orders.json: the four handlers call writeJSON on the path
\* that does not throw, and do not look at what it returns
DispatchOnDisk(t, call, readOk, writeOk) ==
  /\ NoSync
  /\ turn[t].pc = "executing_tools"
  /\ turn[t].remaining > 0
  /\ call.name = "create_work_order" => Len(store) < MaxOrders
  /\ LET workOrders == IF readOk THEN store ELSE << >>
         outcome == Invoke(call, turn[t], workOrders, now)
     IN  /\ store' = IF ~outcome.threw /\ writeOk THEN outcome.store ELSE store
         /\ turn' = [turn EXCEPT ![t] =
               PushResult([turn[t] EXCEPT !.inFlight = @ + 1, !.args = << call.args >>],
                          call.name, outcome.result)]
  /\ UNCHANGED << now, contractors_json, knowledge_json >>

\* PATCH /api/work-orders/:id on such a disk: 404 when the id is not in
\* what was read, 500 and the file as it was when the write fails
PatchOnDisk(workOrderId, status, readOk, writeOk) ==
  LET workOrders == IF readOk THEN store ELSE << >>
      orderIndex == FindIndex({i \in 1..Len(workOrders) : workOrders[i].id = workOrderId})
  IN  /\ NoSync
      /\ status \notin {UNDEF, ""}
      /\ status \in validStatuses
      /\ orderIndex # 0
      /\ store' = IF writeOk
           THEN [workOrders EXCEPT ![orderIndex] =
                   [@ EXCEPT !.status = status,
                             !.updated_at = toISOString(now),
                             !.resolved_at = IF status \in {"solved", "completed"}
                                               THEN toISOString(now) ELSE @]]
           ELSE store
      /\ UNCHANGED << now, turn, contractors_json, knowledge_json >>

\* chat requests of one tool call each and PATCH requests, on a disk whose
\* reads succeed as readOutcomes says and whose writes as writeOutcomes
NextOnDisk(readOutcomes, writeOutcomes) ==
  \/ StartTurn("r1", Tenants[1].id, << >>) /\ Untraced
  \/ OneCall("r1") /\ Untraced
  \/ ThenFinal("r1") /\ Untraced
  \/ \E call \in DiskCalls, readOk \in readOutcomes, writeOk \in writeOutcomes :
       DispatchOnDisk("r1", call, readOk, writeOk) /\ Untraced
  \/ Continue("r1") /\ Untraced
  \/ EndTurn("r1") /\ Untraced
  \/ \E w \in 1..MaxClock, readOk \in readOutcomes, writeOk \in writeOutcomes :
       PatchOnDisk(w, "pending", readOk, writeOk) /\ Untraced
  \/ Tick /\ Untraced

\* SpecWriteFaults: every read succeeds, a write may fail
NextWriteFaults == NextOnDisk({TRUE}, BOOLEAN)

SpecWriteFaults == Init /\ [][NextWriteFaults]_vars

\* SpecReadFaults: every write succeeds, a read may fail
NextReadFaults == NextOnDisk(BOOLEAN, {TRUE})

SpecReadFaults == Init /\ [][NextReadFaults]_vars

\* SpecFrame: chat requests of one tool call each and PATCH requests over a
\* store of up to MaxOrders records: every handler, a call of an unknown
\* tool and a call whose arguments do not parse.
FrameCalls ==
  DiskCalls \cup MalformedCalls \cup UnknownCalls \cup
  {Call("get_work_orders", NoArgs),
   Call("get_available_contractors", [NoArgs EXCEPT !.trade = <<"g", "a", "s">>]),
   Call("search_knowledge_base", [NoArgs EXCEPT !.query = <<"G", "a", "s", " ", "z">>]),
   Call("check_similar_issues", [NoArgs EXCEPT !.new_issue_description = "tap leaks"])}

NextFrame ==
  \/ StartTurn("r1", Tenants[1].id, << >>) /\ Untraced
  \/ OneCall("r1") /\ Untraced
  \/ ThenFinal("r1") /\ Untraced
  \/ \E call \in FrameCalls : Dispatch("r1", call) /\ Untraced
  \/ \E verdict \in TraceVerdicts : JudgeSettles("r1", verdict) /\ Untraced
  \/ Continue("r1") /\ Untraced
  \/ EndTurn("r1") /\ Untraced
  \/ \E w \in 1..MaxClock : PatchWorkOrder(w, "pending") /\ Untraced
  \/ Tick /\ Untraced

SpecFrame == Init /\ [][NextFrame]_vars

(***************************************************************************)
(* Properties.                                                             *)
(***************************************************************************)
IsError(r) == "error" \in DOMAIN r /\ r.error # UNDEF

\* steps of the loop a turn can still take: it decreases with every step of
\* a turn that has arrived and is not answered
LoopWeight == 3 * MaxBatch + 2

Rank(tr) ==
  IF tr.pc \in {"idle", "done"} THEN 0
  ELSE (MAX_LOOPS - tr.loopCount) * LoopWeight +
       (CASE tr.pc = "awaiting_model" -> LoopWeight - 1
          [] tr.pc = "executing_tools" -> 3 * tr.remaining
          [] tr.pc = "awaiting_judge" -> 3 * tr.remaining - 1
          [] tr.pc = "tool_returned" -> 3 * tr.remaining + 1)

C1_State ==
  \A t \in Turns :
    /\ turn[t].loopCount <= MAX_LOOPS
    /\ turn[t].batches <= turn[t].loopCount
    /\ turn[t].response = "Agent loop limit exceeded" =>
         turn[t].loopCount = MAX_LOOPS /\ turn[t].batches = MAX_LOOPS
    /\ (turn[t].pc = "done" /\ turn[t].batches = MAX_LOOPS /\ turn[t].remaining = 0) =>
         turn[t].response = "Agent loop limit exceeded"

C1_Step ==
  \A t \in Turns :
    (turn'[t] # turn[t] /\ turn[t].pc \notin {"idle", "done"}) =>
      /\ Rank(turn'[t]) < Rank(turn[t])
      /\ Rank(turn'[t]) >= 0
      /\ turn'[t].loopCount \in {turn[t].loopCount, turn[t].loopCount + 1}

\* C1: the engine is called at most MAX_LOOPS (5) times in a turn; a turn
\* whose 5 answers all carried tool calls, all of them executed, ends with
\* "Agent loop limit exceeded" and that response is sent in no other case;
\* every step of a running turn lowers a bounded rank, so the turn ends.
C1_LoopCap == [] C1_State /\ [][C1_Step]_vars

C1_Witness ==
  \E t \in Turns :
    /\ turn[t].pc = "done"
    /\ turn[t].response = "Agent loop limit exceeded"
    /\ turn[t].batches = MAX_LOOPS

\* C2: create_work_order is never invoked in a turn unless a
\* check_similar_issues call of that turn has returned before.
C2_CheckBeforeCreate ==
  \A t \in Turns :
    (turn[t].pc = "tool_returned" /\ turn[t].functionName = "create_work_order") =>
      turn[t].checked

C3_State ==
  \A t \in Turns :
    /\ turn[t].inFlight \in {0, 1}
    /\ turn[t].inFlight = 1 <=> turn[t].judging
    /\ turn[t].judging => turn[t].pc = "awaiting_judge"

C3_Step ==
  \A t \in Turns :
    \* a handler begins in this step
    (\/ turn'[t].inFlight > turn[t].inFlight
     \/ turn[t].pc # "tool_returned" /\ turn'[t].pc = "tool_returned" /\ ~turn[t].judging) =>
      /\ turn[t].inFlight = 0
      /\ turn[t].pc = "executing_tools"
      /\ turn[t].result = NoResult

\* C3: within a turn at most one handler is in flight, the only handler
\* that stays in flight is the one awaiting the judge, the turn takes no
\* other step meanwhile, and a handler begins only when every earlier one
\* of the turn has returned and its result has been pushed.
C3_Sequential == [] C3_State /\ [][C3_Step]_vars

C3_Witness ==
  \E t \in Turns :
    /\ turn[t].judging
    /\ turn[t].remaining = 2
    /\ turn[t].checked

(***************************************************************************)
(* The duplicate issue detector.                                           *)
(***************************************************************************)
ActiveStatuses == {"assigned", "pending", "in_progress"}

\* the orders of a tenant that are active, in the order of the collection
TenantActive(wos, tenant) ==
  SelectSeq(wos, LAMBDA wo : wo.tenant_id = tenant /\ wo.status \in ActiveStatuses)

\* a check_similar_issues call of turn t has just returned
CheckReturned(t) ==
  turn[t].pc = "tool_returned" /\ turn[t].functionName = "check_similar_issues"

\* this step begins a check_similar_issues call of turn t (it reads the store)
CheckBegins(t) ==
  /\ turn[t].pc = "executing_tools"
  /\ \/ turn'[t].judging
     \/ turn'[t].pc = "tool_returned" /\ turn'[t].functionName = "check_similar_issues"

\* this step calls the judge for turn t
JudgeCalled(t) == ~turn[t].judging /\ turn'[t].judging

\* issues is the list (id, issue_summary, trade) of the orders
BriefsOf(issues, orders) ==
  /\ Len(issues) = Len(orders)
  /\ \A k \in 1..Len(issues) :
       /\ issues[k].id = orders[k].id
       /\ issues[k].issue_summary = orders[k].issue_summary
       /\ issues[k].trade = orders[k].trade

C4_Step ==
  \A t \in Turns :
    (CheckBegins(t) /\ Len(TenantActive(store, turn[t].tenant)) = 0) =>
      /\ ~JudgeCalled(t)
      /\ turn'[t].pc = "tool_returned"
      /\ "has_similar" \in DOMAIN turn'[t].result
      /\ turn'[t].result.has_similar = FALSE
      /\ turn'[t].result.active_orders_count = 0
      /\ store' = store

\* C4: a check_similar_issues call that finds no active order of the
\* tenant in the store returns has_similar = false and active_orders_count
\* = 0 in the same step, without a judge call.
C4_FastPath == [][C4_Step]_vars

C4_Witness ==
  \E t \in Turns :
    /\ CheckReturned(t)
    /\ turn[t].verdict = << >>
    /\ turn[t].result.active_orders_count = 0
    /\ Len(store) > 0

C5_State ==
  \A t \in Turns :
    (CheckReturned(t) /\ turn[t].verdict # << >> /\ turn[t].verdict[1].threw) =>
      /\ Len(turn[t].existingIssues) >= 1
      /\ "has_similar" \in DOMAIN turn[t].result
      /\ turn[t].result.has_similar = FALSE
      /\ turn[t].result.error # UNDEF
      /\ BriefsOf(turn[t].result.existing_issues, turn[t].existingIssues)
      /\ turn[t].response = UNDEF

C5_Step ==
  \A t \in Turns :
    /\ JudgeCalled(t) =>
         /\ Len(turn'[t].existingIssues) >= 1
         /\ BriefsOf(turn'[t].existingIssues, TenantActive(store, turn[t].tenant))
         /\ store' = store
    /\ (turn[t].judging /\ ~turn'[t].judging) => store' = store

\* C5: when the judge call fails, check_similar_issues returns (it does
\* not throw) has_similar = false with the error field set and with
\* existing_issues listing (id, issue_summary, trade) of the orders it read
\* as the tenant's active orders; neither the read nor the return writes
\* the store.
C5_FailOpen == [] C5_State /\ [][C5_Step]_vars

C5_Witness ==
  \E t \in Turns :
    /\ CheckReturned(t)
    /\ turn[t].verdict # << >>
    /\ turn[t].verdict[1].threw
    /\ turn[t].result.error # UNDEF
    /\ Len(turn[t].result.existing_issues) >= 1

\* C6: when the verdict claims similarity and its matching_order_id (an id
\* or null) is not the id of an order given to the judge, the call returns
\* has_similar = false, lists the active orders in existing_issues and
\* sets the error field.
C6_UnresolvedIsDegraded ==
  \A t \in Turns :
    (/\ CheckReturned(t)
     /\ turn[t].verdict # << >>
     /\ ~turn[t].verdict[1].threw
     /\ turn[t].verdict[1].is_similar
     /\ \A k \in 1..Len(turn[t].existingIssues) :
          turn[t].existingIssues[k].id # turn[t].verdict[1].matching_order_id) =>
      /\ turn[t].result.has_similar = FALSE
      /\ BriefsOf(turn[t].result.existing_issues, turn[t].existingIssues)
      /\ turn[t].result.error # UNDEF

C7_State ==
  \A t \in Turns :
    (CheckReturned(t) /\ turn[t].result.has_similar) =>
      /\ turn[t].result.similar_order # << >>
      /\ \E k \in 1..Len(turn[t].existingIssues) :
           turn[t].existingIssues[k] = turn[t].result.similar_order[1]
      /\ turn[t].result.similar_order[1].status \in ActiveStatuses

C7_Step ==
  \A t \in Turns :
    JudgeCalled(t) =>
      \A k \in 1..Len(turn'[t].existingIssues) :
        \E i \in 1..Len(store) :
          /\ store[i].id = turn'[t].existingIssues[k].id
          /\ store[i].tenant_id = turn[t].tenant
          /\ store[i].status \in ActiveStatuses
          /\ store[i].status = turn'[t].existingIssues[k].status
          /\ store[i].issue_summary = turn'[t].existingIssues[k].issue_summary

\* C7: the judge is given only orders that, in the store the call read,
\* belong to the tenant and are assigned, pending or in_progress, and a
\* result with has_similar = true carries as similar_order one of the
\* orders given to the judge.
C7_MatchIsActiveOrderOfTenant == [] C7_State /\ [][C7_Step]_vars

C7_Witness ==
  \E t \in Turns :
    /\ CheckReturned(t)
    /\ turn[t].result.has_similar
    /\ turn[t].result.similar_order # << >>
    /\ turn[t].result.similar_order[1].id = turn[t].verdict[1].matching_order_id

(***************************************************************************)
(* The lifecycle of a work order.                                          *)
(***************************************************************************)
\* this step runs the handler `name` of turn t to its return
Ran(t, name) ==
  /\ turn[t].pc = "executing_tools"
  /\ turn'[t].pc = "tool_returned"
  /\ turn'[t].functionName = name

InStore(wos, id) == \E i \in 1..Len(wos) : wos[i].id = id

\* wos2 is wos but for the record at i, which differs at most in the
\* fields status, updated_at, resolved_at and resolution_notes
OnlyCompletionFieldsChange(wos, wos2, i) ==
  /\ Len(wos2) = Len(wos)
  /\ \A j \in 1..Len(wos) : j # i => wos2[j] = wos[j]
  /\ wos2[i] = [wos[i] EXCEPT !.status = wos2[i].status,
                              !.updated_at = wos2[i].updated_at,
                              !.resolved_at = wos2[i].resolved_at,
                              !.resolution_notes = wos2[i].resolution_notes]

\* the step completes the record at i for the call argument a
Completes(i, a) ==
  /\ store[i].id = a.work_order_id
  /\ OnlyCompletionFieldsChange(store, store', i)
  /\ store'[i].status = "solved"
  /\ store'[i].updated_at # UNSET
  /\ store'[i].resolved_at # UNSET

\* C8 as stated: complete_work_order on an id present in the store sets the
\* order's status to solved and sets updated_at and resolved_at;
\* resolution_notes is stored whenever the argument is given and left as it
\* was when the argument is not given.
C8_Original ==
  [][\A t \in Turns :
       (Ran(t, "complete_work_order")
          /\ InStore(store, turn'[t].args[1].work_order_id)) =>
         \E i \in 1..Len(store) :
           /\ Completes(i, turn'[t].args[1])
           /\ store'[i].resolution_notes =
                IF turn'[t].args[1].resolution_notes # UNDEF
                  THEN turn'[t].args[1].resolution_notes
                  ELSE store[i].resolution_notes]_vars

\* C8: complete_work_order on an id present in the store, from any current
\* status, sets the order's status to solved and sets updated_at and
\* resolved_at, and changes nothing else but resolution_notes, which is
\* stored when given as a non-empty string and left as it was when absent
\* or empty.
C8_Complete ==
  [][\A t \in Turns :
       (Ran(t, "complete_work_order")
          /\ InStore(store, turn'[t].args[1].work_order_id)) =>
         \E i \in 1..Len(store) :
           /\ Completes(i, turn'[t].args[1])
           /\ store'[i].resolution_notes =
                IF turn'[t].args[1].resolution_notes \notin {UNDEF, ""}
                  THEN turn'[t].args[1].resolution_notes
                  ELSE store[i].resolution_notes]_vars

C8_Witness ==
  \E t \in Turns :
    /\ turn[t].pc = "tool_returned"
    /\ turn[t].functionName = "complete_work_order"
    /\ turn[t].args[1].resolution_notes = ""
    /\ \E i \in 1..Len(store) :
         /\ store[i].id = turn[t].args[1].work_order_id
         /\ store[i].status = "solved"
         /\ store[i].resolved_at # UNSET
         /\ store[i].resolution_notes = "fixed"

C9_Step ==
  \A t \in Turns :
    /\ \A name \in {"update_work_order", "complete_work_order", "delete_work_order"} :
         (Ran(t, name) /\ ~InStore(store, turn'[t].args[1].work_order_id)) =>
           /\ store' = store
           /\ DOMAIN turn'[t].result = {"error"}
           /\ turn'[t].result.error = "Work order not found."
           /\ turn'[t].response = UNDEF
    /\ (turn[t].pc = "tool_returned" /\ turn'[t].pc # "tool_returned") =>
         /\ turn'[t].pc \in {"executing_tools", "awaiting_model", "done"}
         /\ turn'[t].response # "Internal Server Error"
         /\ store' = store

\* C9: update_work_order, complete_work_order and delete_work_order called
\* with a work_order_id that is not in the store leave the store as it was
\* and yield the tool result {error: not found}; the turn then goes on to
\* its next tool call or engine call rather than failing.
C9_NotFound == [][C9_Step]_vars

C9_Witness ==
  \E t \in Turns :
    /\ turn[t].pc = "tool_returned"
    /\ turn[t].functionName = "delete_work_order"
    /\ turn[t].result = [error |-> "Work order not found."]
    /\ store # << >>
    /\ ~InStore(store, turn[t].args[1].work_order_id)

\* C10: in every reachable state of the store every work order whose
\* status is completed or solved has both updated_at and resolved_at set.
C10_ResolvedHasTimestamps ==
  \A i \in 1..Len(store) :
    store[i].status \in {"completed", "solved"} =>
      store[i].updated_at # UNSET /\ store[i].resolved_at # UNSET

(***************************************************************************)
(* The status of a work order.                                             *)
(***************************************************************************)
TerminalStatuses == {"completed", "solved"}

Priorities == {"Low", "Medium", "High", "Emergency"}

\* C11: in every reachable state of the store a work order that has
\* resolved_at set has status completed or solved.
C11_ResolvedAtOnlyWhenDone ==
  \A i \in 1..Len(store) :
    store[i].resolved_at # UNSET => store[i].status \in TerminalStatuses

\* C12: once a work order's status is completed or solved, no step (an
\* update_work_order or complete_work_order call, a PATCH request) brings
\* the order with that id to assigned, pending or in_progress.
C12_TerminalStaysTerminal ==
  [][\A i \in 1..Len(store), j \in 1..Len(store') :
       (store[i].id = store'[j].id /\ store[i].status \in TerminalStatuses) =>
         store'[j].status \notin ActiveStatuses]_vars

\* C13: every stored work order has its status among assigned, pending,
\* in_progress, completed, solved and its priority among Low, Medium, High,
\* Emergency.
C13_EnumeratedFields ==
  \A i \in 1..Len(store) :
    store[i].status \in validStatuses /\ store[i].priority \in Priorities

(***************************************************************************)
(* Identifiers.                                                            *)
(***************************************************************************)
\* C14: no two records in the store have the same id, and a record created
\* later (further down the collection) never has a smaller id than one
\* created earlier.
C14_UniqueIds ==
  \A i, j \in 1..Len(store) :
    i < j => store[i].id # store[j].id /\ store[i].id <= store[j].id

(***************************************************************************)
(* The contractor of a new work order.                                     *)
(***************************************************************************)
\* the least index of a set of indices
First(S) == CHOOSE i \in S : \A j \in S : i <= j

WithId(a) == {i \in 1..Len(contractors_json) : contractors_json[i].id = a}

WithName(a) ==
  {i \in 1..Len(contractors_json) : toLowerCase(contractors_json[i].name) = toLowerCase(a)}

NameContains(a) ==
  {i \in 1..Len(contractors_json) :
     includes(toLowerCase(contractors_json[i].name), toLowerCase(a))}

\* the argument names a contractor by id, by name or by a part of a name
Resolvable(a) ==
  a # NoContractorArg /\ (WithId(a) \cup WithName(a) \cup NameContains(a)) # {}

\* the contractor the argument stands for, in the order id, name, part
Resolved(a) ==
  contractors_json[IF WithId(a) # {} THEN First(WithId(a))
                   ELSE IF WithName(a) # {} THEN First(WithName(a))
                   ELSE First(NameContains(a))]

\* this step is a create_work_order call of turn t that returns a record
Created(t) ==
  /\ Ran(t, "create_work_order")
  /\ ~IsError(turn'[t].result)

\* C15: the record a create_work_order call stores has contractor_id,
\* contractor_name and trade of the contractor whose id equals the
\* argument, else of the first whose name equals it ignoring case, else of
\* the first whose name contains it ignoring case, for every contractors
\* list and argument; a call whose argument names a contractor stores a
\* record.
C15_ContractorResolution ==
  [][\A t \in Turns :
       /\ Created(t) =>
            LET a == turn'[t].args[1].contractor_id
                rec == store'[Len(store')]
            IN  /\ Resolvable(a)
                /\ Len(store') = Len(store) + 1
                /\ rec.contractor_id = Resolved(a).id
                /\ rec.contractor_name = Resolved(a).name
                /\ rec.trade = Resolved(a).service
                /\ turn'[t].result.contractor_id = rec.contractor_id
       /\ (Ran(t, "create_work_order") /\ Resolvable(turn'[t].args[1].contractor_id)) =>
            Created(t)]_vars

\* a record whose contractor was found by name although an earlier
\* contractor's name contains the argument
C15_Witness ==
  \E t \in Turns :
    /\ turn[t].pc = "tool_returned"
    /\ turn[t].functionName = "create_work_order"
    /\ ~IsError(turn[t].result)
    /\ LET a == turn[t].args[1].contractor_id
       IN  /\ WithId(a) = {}
           /\ WithName(a) # {}
           /\ First(NameContains(a)) < First(WithName(a))
           /\ store[Len(store)].contractor_name = contractors_json[First(WithName(a))].name

C16_Step ==
  \A t \in Turns :
    /\ (Ran(t, "create_work_order") /\ ~Resolvable(turn'[t].args[1].contractor_id)) =>
         /\ store' = store
         /\ DOMAIN turn'[t].result = {"error"}
         /\ turn'[t].result.error # UNDEF
         /\ turn'[t].response = UNDEF
    /\ (/\ turn[t].pc = "tool_returned"
        /\ turn[t].functionName = "create_work_order"
        /\ IsError(turn[t].result)
        /\ turn'[t].pc # "tool_returned") =>
         /\ store' = store
         /\ turn'[t].response = UNDEF
         /\ turn'[t].pc = "awaiting_model"
         /\ turn'[t].loopCount = turn[t].loopCount + 1

\* C16: a create_work_order call whose contractor argument is missing or
\* names no contractor by id, name or part of a name leaves the store as it
\* was and yields the tool result {error: ...}; the turn then makes its
\* next engine call.
C16_UnresolvedContractor == [][C16_Step]_vars

C16_Witness ==
  \E t \in Turns :
    /\ turn[t].pc = "tool_returned"
    /\ turn[t].functionName = "create_work_order"
    /\ turn[t].args[1].contractor_id = <<"z">>
    /\ contractors_json # << >>
    /\ IsError(turn[t].result)
    /\ store = << >>

(***************************************************************************)
(* Creating, listing and deleting.                                         *)
(***************************************************************************)
\* a call of the handler `name` of turn t has just returned
Returns(t, name) == turn[t].pc = "tool_returned" /\ turn[t].functionName = name

\* the record that create_work_order returned is the last of the store,
\* for the turn's tenant and assigned
C17_Created ==
  \A t \in Turns :
    (Returns(t, "create_work_order") /\ ~IsError(turn[t].result)) =>
      /\ store # << >>
      /\ store[Len(store)].id = turn[t].result.id
      /\ store[Len(store)].tenant_id = turn[t].tenant
      /\ store[Len(store)].status = "assigned"

\* get_work_orders with no filter or the filter assigned lists every
\* assigned order of the turn's tenant that is in the store
C17_Listed ==
  \A t \in Turns :
    (Returns(t, "get_work_orders")
       /\ turn[t].args[1].status_filter \in {UNDEF, "assigned"}) =>
      /\ "orders" \in DOMAIN turn[t].result
      /\ \A i \in 1..Len(store) :
           (store[i].tenant_id = turn[t].tenant /\ store[i].status = "assigned") =>
             \E k \in 1..Len(turn[t].result.orders) :
               /\ turn[t].result.orders[k].id = store[i].id
               /\ turn[t].result.orders[k].tenant_id = turn[t].tenant
               /\ turn[t].result.orders[k].status = "assigned"

\* C17: a create_work_order call for tenant T that returns a record has
\* stored it with the returned id, tenant_id = T and status assigned, and
\* a get_work_orders call for T with no filter or with status_filter =
\* assigned lists every such record of the store it reads, without
\* changing the store.
C17_CreateThenList ==
  [](C17_Created /\ C17_Listed)
    /\ [][\A t \in Turns : Ran(t, "get_work_orders") => store' = store]_vars

C17_Witness ==
  \E t \in Turns :
    /\ Returns(t, "get_work_orders")
    /\ turn[t].args[1].status_filter = "assigned"
    /\ Len(turn[t].result.orders) = 1
    /\ turn[t].result.orders[1].status = "assigned"
    /\ turn[t].result.orders[1].id = store[1].id
    /\ store[1].updated_at = UNSET

\* wos2 is wos without its record at i
Without(wos, wos2, i) ==
  /\ Len(wos2) = Len(wos) - 1
  /\ \A k \in 1..Len(wos2) : wos2[k] = IF k < i THEN wos[k] ELSE wos[k + 1]

\* snapshot is the record wo with its attachments replaced by their count
SnapshotOf(snapshot, wo) ==
  /\ snapshot.attachments_count = Len(wo.attachments)
  /\ \A f \in {"id", "tenant_id", "issue_summary", "contractor_id", "contractor_name",
                "trade", "priority", "status", "created_at", "updated_at",
                "resolved_at", "resolution_notes"} : snapshot[f] = wo[f]

\* C18: delete_work_order on an id present in the store returns the record
\* as it was (attachments replaced by a count) and removes it: the other
\* records stay as they were and in their order, and the store holds no
\* record with that id afterwards (so no later get_work_orders lists one).
C18_DeleteRemoves ==
  [][\A t \in Turns :
       (Ran(t, "delete_work_order")
          /\ InStore(store, turn'[t].args[1].work_order_id)) =>
         /\ \E i \in 1..Len(store) :
              /\ store[i].id = turn'[t].args[1].work_order_id
              /\ Without(store, store', i)
              /\ "deleted_order" \in DOMAIN turn'[t].result
              /\ SnapshotOf(turn'[t].result.deleted_order, store[i])
         /\ ~InStore(store', turn'[t].args[1].work_order_id)]_vars

(***************************************************************************)
(* The tenant of a tool call.                                              *)
(***************************************************************************)
\* the tenant_id values the engine may put in the arguments
EngineTenantIds == TenantIdArgs \cup {UNDEF}

C19_Step ==
  \A t \in Turns :
    /\ Created(t) =>
         /\ store'[Len(store')].tenant_id = turn[t].tenant
         /\ turn'[t].result.tenant_id = turn[t].tenant
    /\ Ran(t, "get_work_orders") =>
         \A k \in 1..Len(turn'[t].result.orders) :
           turn'[t].result.orders[k].tenant_id = turn[t].tenant
    /\ \A name \in {"create_work_order", "get_work_orders"} :
         Ran(t, name) =>
           \A tid \in EngineTenantIds :
             LET other == Call(name, [turn'[t].args[1] EXCEPT !.tenant_id = tid])
                 outcome == Invoke(other, turn[t], store, now)
             IN  store' = outcome.store /\ turn'[t].result = outcome.result
    /\ CheckBegins(t) =>
         /\ JudgeCalled(t) <=> TenantActive(store, turn[t].tenant) # << >>
         /\ JudgeCalled(t) =>
              BriefsOf(turn'[t].existingIssues, TenantActive(store, turn[t].tenant))

\* C19: the handlers of check_similar_issues, create_work_order and
\* get_work_orders work for the session tenant whatever tenant_id the
\* engine's arguments carry: the record created and the records listed
\* have the session tenant's id, the orders read for the judge are the
\* session tenant's, and the same call with any other tenant_id in its
\* arguments gives the same store and the same result.
C19_TenantOverride == [][C19_Step]_vars

C19_Witness ==
  \E t \in Turns :
    /\ Returns(t, "create_work_order")
    /\ ~IsError(turn[t].result)
    /\ turn[t].args[1].tenant_id \notin {UNDEF, turn[t].tenant}
    /\ store[Len(store)].tenant_id = turn[t].tenant

(***************************************************************************)
(* Failures of tool calls.                                                 *)
(***************************************************************************)
\* the names the if/else chain of the dispatcher knows
ToolNames ==
  {"search_knowledge_base", "check_similar_issues", "get_available_contractors",
   "create_work_order", "get_work_orders", "update_work_order",
   "complete_work_order", "delete_work_order"}

\* the handler run by this step of turn t throws
Throws(t) ==
  LET a == turn'[t].args[1]
  IN  \/ Ran(t, "create_work_order") /\ ~Resolvable(a.contractor_id)
      \/ Ran(t, "search_knowledge_base") /\ a.query = NoQuery
      \/ \E name \in {"update_work_order", "complete_work_order", "delete_work_order"} :
           Ran(t, name) /\ ~InStore(store, a.work_order_id)

\* this step runs a tool call of turn t whose name has no handler
UnknownTool(t) ==
  /\ turn[t].pc = "executing_tools"
  /\ turn'[t].functionName # UNDEF
  /\ turn'[t].functionName \notin ToolNames

C20_Step ==
  \A t \in Turns :
    /\ Throws(t) =>
         /\ DOMAIN turn'[t].result = {"error"}
         /\ turn'[t].result.error \notin {UNDEF, "Unknown tool"}
    /\ UnknownTool(t) => turn'[t].result = [error |-> "Unknown tool"]
    /\ (Throws(t) \/ UnknownTool(t)) =>
         /\ turn'[t].pc = "tool_returned"
         /\ turn'[t].remaining = turn[t].remaining - 1
         /\ turn'[t].response = UNDEF
         /\ store' = store
    /\ (turn[t].pc = "tool_returned" /\ IsError(turn[t].result)
          /\ turn'[t].pc # "tool_returned") =>
         /\ turn'[t].remaining = turn[t].remaining
         /\ IF turn[t].remaining > 0
              THEN turn'[t].pc = "executing_tools" /\ turn'[t].response = UNDEF
            ELSE IF turn[t].loopCount < MAX_LOOPS
              THEN turn'[t].pc = "awaiting_model" /\ turn'[t].response = UNDEF
            ELSE turn'[t].response = "Agent loop limit exceeded"

\* C20: a tool call whose handler throws yields the tool result {error:
\* message} and a tool call whose name has no handler yields {error:
\* "Unknown tool"}; the result is pushed like any other, the calls left in
\* the batch are executed next, and after the last one the turn goes on to
\* its next engine call (or to the loop limit).
C20_FailuresBecomeResults == [][C20_Step]_vars

C20_Witness ==
  \E t \in Turns :
    /\ Returns(t, "delete_work_order")
    /\ turn[t].result = [error |-> "Work order not found."]
    /\ turn[t].remaining = 1
    /\ turn[t].response = UNDEF

\* C21: a tool call whose arguments cannot be parsed, or lack a required
\* argument, gets a tool result for that call and the turn goes on: no step
\* of the for loop over the tool calls ends the turn with a failure.
C21_BadArgumentsAreResults ==
  [][\A t \in Turns :
       turn[t].pc = "executing_tools" =>
         /\ turn'[t].pc # "done"
         /\ turn'[t].response = UNDEF]_vars

(***************************************************************************)
(* Attachments.                                                            *)
(***************************************************************************)
\* no record of the list has a field attachments
NoneCarries(list) == \A k \in 1..Len(list) : "attachments" \notin DOMAIN list[k]

\* the tool result r holds no attachments list, of itself or of a work
\* order in it
NoAttachmentsIn(r) ==
  /\ "attachments" \notin DOMAIN r
  /\ "orders" \in DOMAIN r => NoneCarries(r.orders)
  /\ "deleted_order" \in DOMAIN r => "attachments" \notin DOMAIN r.deleted_order
  /\ "similar_order" \in DOMAIN r => NoneCarries(r.similar_order)
  /\ "existing_issues" \in DOMAIN r => NoneCarries(r.existing_issues)

\* the count and the flag of the listed order are those of the stored one
CountsOf(listed, wo) ==
  /\ listed.attachments_count = Len(wo.attachments)
  /\ listed.has_photos = (Len(wo.attachments) > 0)

C22_State ==
  \A t \in Turns :
    turn[t].pc = "tool_returned" =>
      /\ NoAttachmentsIn(turn[t].result)
      /\ (Returns(t, "create_work_order") /\ ~IsError(turn[t].result)) =>
           /\ turn[t].result.attachments_count = Len(turn[t].attachments)
           /\ store[Len(store)].attachments = turn[t].attachments
      /\ (\E name \in {"update_work_order", "complete_work_order"} : Returns(t, name))
           /\ ~IsError(turn[t].result) =>
           \E i \in 1..Len(store) :
             /\ store[i].id = turn[t].result.id
             /\ turn[t].result.attachments_count = Len(store[i].attachments)
      /\ Returns(t, "get_work_orders") =>
           \A k \in 1..Len(turn[t].result.orders) :
             \E i \in 1..Len(store) :
               /\ store[i].id = turn[t].result.orders[k].id
               /\ CountsOf(turn[t].result.orders[k], store[i])

C23_Step ==
  /\ \A t \in Turns :
       Created(t) =>
         /\ store'[Len(store')].attachments = turn[t].attachments
         /\ SubSeq(store', 1, Len(store)) = store
  /\ Len(store') = Len(store) =>
       \A i \in 1..Len(store) : store'[i].attachments = store[i].attachments
  /\ Len(store') < Len(store) => \E i \in 1..Len(store) : Without(store, store', i)

\* C23: the attachments stored with a work order are the attachment list
\* of the request that created it, whatever attachments the engine put in
\* the arguments, and no later step (update_work_order,
\* complete_work_order, a PATCH request, the creation or deletion of
\* another order) changes the attachments of an order.
C23_AttachmentsWriteOnce == [][C23_Step]_vars

C23_Witness ==
  \E i \in 1..Len(store) :
    /\ store[i].attachments = <<"photo">>
    /\ store[i].status = "in_progress"
    /\ store[i].updated_at # UNSET

\* C24: when the first engine call of a request is made, the conversation
\* is the system message followed by the last min(n, 4) of the request's n
\* messages, in their order: the last message is among them and no message
\* older than the last 4 is.
C24_HistoryBound ==
  \A t \in Turns :
    (turn[t].pc = "awaiting_model" /\ turn[t].loopCount = 1) =>
      LET n == Len(messages[t])
          k == IF n < 4 THEN n ELSE 4
      IN  /\ Len(conversation[t]) = 1 + k
          /\ conversation[t][1].role = "system"
          /\ \A i \in 1..k : conversation[t][1 + i] = messages[t][n - k + i]

C24_Witness ==
  \E t \in Turns :
    /\ turn[t].pc = "awaiting_model"
    /\ turn[t].loopCount = 1
    /\ Len(messages[t]) = 5
    /\ Len(conversation[t]) = 5
    /\ conversation[t][2] = messages[t][2]
    /\ conversation[t][5] = messages[t][5]

\* list is other, possibly with more entries after it
Extends(list, other) ==
  /\ Len(list) >= Len(other)
  /\ SubSeq(list, 1, Len(other)) = other

\* tool call a was asked for before tool call b: in an earlier engine
\* answer, or earlier in the same one
AskedBefore(a, b) ==
  \/ a.id[1] < b.id[1]
  \/ a.id[1] = b.id[1] /\ a.id[2] < b.id[2]

\* the response of a turn that ended with an answer without tool calls
C25_Response(t) ==
  (Len(sent[t]) = 1 /\ "message" \in DOMAIN sent[t][1]) =>
    LET body == sent[t][1]
    IN  /\ body.toolCalls = allToolCalls[t]
        /\ body.toolResults = allToolResults[t]
        /\ Len(body.toolCalls) = Len(body.toolResults)
        /\ \A i \in 1..Len(body.toolCalls) :
             /\ body.toolResults[i].name = body.toolCalls[i].name
             /\ \A j \in 1..Len(body.toolCalls) :
                  i < j => AskedBefore(body.toolCalls[i], body.toolCalls[j])

\* during a turn the traces only get entries added at their end
C25_Step ==
  \A t \in Turns :
    turn'[t].pc # "idle" =>
      /\ Extends(allToolCalls'[t], allToolCalls[t])
      /\ Extends(allToolResults'[t], allToolResults[t])

\* C25: the response of a turn that ends with an answer without tool calls
\* carries the message, the tool calls and the tool results of the whole
\* turn; the two traces have the same length, list the calls in the order
\* they were asked for and executed over all iterations, the i-th result
\* has the name of the i-th call, failed calls included; during the turn
\* the traces only grow at their end.
C25_Traces == [](\A t \in Turns : C25_Response(t)) /\ [][C25_Step]_vars

C25_Witness ==
  \E t \in Turns :
    /\ Len(sent[t]) = 1
    /\ "message" \in DOMAIN sent[t][1]
    /\ Len(sent[t][1].toolCalls) = 2
    /\ sent[t][1].toolCalls[1].id = << 1, 1 >>
    /\ sent[t][1].toolCalls[2].id = << 2, 1 >>
    /\ sent[t][1].toolResults[1].name = "send_email"
    /\ sent[t][1].toolResults[1].content = [error |-> "Unknown tool"]
    /\ sent[t][1].toolResults[2].name = "create_work_order"

\* a message of the conversation that asks for tool calls
IsRequest(m) == "tool_calls" \in DOMAIN m

\* a message of the conversation that carries the result of a tool call
IsToolMessage(m) == "tool_call_id" \in DOMAIN m

\* the results of the earlier batches are in the conversation
C29_Folded(t) ==
  LET conv == conversation[t]
  IN  /\ \A c \in 1..Len(allToolCalls[t]) :
           /\ Cardinality({q \in 1..Len(conv) :
                             /\ IsToolMessage(conv[q])
                             /\ conv[q].tool_call_id = allToolCalls[t][c].id}) = 1
           /\ \E p \in 1..Len(conv) :
                /\ IsRequest(conv[p])
                /\ \E i \in 1..Len(conv[p].tool_calls) :
                     conv[p].tool_calls[i] = allToolCalls[t][c]
      /\ \A p \in 1..Len(conv) :
           IsRequest(conv[p]) =>
             \A i \in 1..Len(conv[p].tool_calls) :
               /\ p + i <= Len(conv)
               /\ IsToolMessage(conv[p + i])
               /\ conv[p + i].tool_call_id = conv[p].tool_calls[i].id
               /\ conv[p + i].name = conv[p].tool_calls[i].name

C29_Step ==
  \A t \in Turns :
    turn'[t].pc # "idle" => Extends(conversation'[t], conversation[t])

\* C29: at every engine call of a turn after the first, the conversation
\* holds, for each tool call of each earlier engine answer, exactly one tool
\* message with its tool_call_id, after the assistant message that asked
\* for it and in the order of that answer's tool calls; during a turn the
\* conversation only gets messages added at its end.
C29_ResultsFoldedBeforeNextCall ==
  /\ [](\A t \in Turns :
          (turn[t].pc = "awaiting_model" /\ turn[t].loopCount > 1) => C29_Folded(t))
  /\ [][C29_Step]_vars

C29_Witness ==
  \E t \in Turns :
    LET conv == conversation[t]
    IN  /\ turn[t].pc = "awaiting_model"
        /\ turn[t].loopCount = 2
        /\ Len(allToolCalls[t]) = 2
        /\ Len(conv) >= 3
        /\ IsRequest(conv[Len(conv) - 2])
        /\ IsToolMessage(conv[Len(conv) - 1])
        /\ conv[Len(conv) - 1].tool_call_id = << 1, 1 >>
        /\ conv[Len(conv) - 1].name = "check_similar_issues"
        /\ IsToolMessage(conv[Len(conv)])
        /\ conv[Len(conv)].tool_call_id = << 1, 2 >>
        /\ conv[Len(conv)].content = [error |-> "Unknown tool"]

\* the turn ended with the iteration cap reached or with an engine call
\* that failed: an error body, and no tool call left unexecuted
FatalTurnError(t) ==
  /\ turn[t].pc = "done"
  /\ turn[t].remaining = 0
  /\ Len(sent[t]) = 1
  /\ "error" \in DOMAIN sent[t][1]

\* the orders of the store that the tool calls of turn t created
CreatedBy(t) ==
  {i \in 1..Len(store) :
     \E k \in 1..Len(allToolResults[t]) :
       /\ allToolResults[t][k].name = "create_work_order"
       /\ "id" \in DOMAIN allToolResults[t][k].content
       /\ allToolResults[t][k].content.id = store[i].id
       /\ allToolResults[t][k].content.tenant_id = store[i].tenant_id}

\* C30: a turn that ends with the iteration cap reached or with a failed
\* engine call answers with a fixed generic error and nothing else, and the
\* store holds no work order that a tool call of that turn created.
C30_FatalTurnLeavesNoTrace ==
  \A t \in Turns :
    FatalTurnError(t) =>
      /\ DOMAIN sent[t][1] = {"error"}
      /\ sent[t][1].error \in {"Agent loop limit exceeded", "Internal Server Error"}
      /\ CreatedBy(t) = {}

\* the turn is between its first and its last step
Running(t) ==
  turn[t].pc \in {"awaiting_model", "executing_tools", "awaiting_judge", "tool_returned"}

\* C26: between the first and the last step of a chat turn, the waits for
\* the engine and for the judge included, no step of another chat turn or
\* of a PATCH request writes the store: a step that is not the turn's own
\* leaves the store as it is.
C26_TurnIsNotInterleaved ==
  [][\A t \in Turns : (Running(t) /\ turn'[t] = turn[t]) => store' = store]_vars

\* the work orders that the tool calls of turn t report as created
ReportedBy(t) ==
  {allToolResults[t][k].content : k \in
     {k \in 1..Len(allToolResults[t]) :
        /\ allToolResults[t][k].name = "create_work_order"
        /\ "id" \in DOMAIN allToolResults[t][k].content}}

\* the places of the store that hold the reported work order
PlacesOf(reported) ==
  {i \in 1..Len(store) : WithoutAttachments(store[i]) = reported}

\* both requests have reported a created work order
BothReported == ReportedBy("r1") # {} /\ ReportedBy("r2") # {}

TermsOf(query) ==
  {<< a, b >> \in (1..Len(query)) \X (1..Len(query)) :
     /\ a <= b
     /\ \A i \in a..b : query[i] # " "
     /\ a = 1 \/ query[a - 1] = " "
     /\ b = Len(query) \/ query[b + 1] = " "}

\* the text of an article: title, body and tags
TextOf(article) ==
  toLowerCase(article.title \o <<" ">> \o article.content \o <<" ">> \o join(article.tags))

\* what one term adds to the score of an article
TermScore(article, term) ==
  IF includes(TextOf(article), term)
    THEN 1 + (IF includes(toLowerCase(article.title), term) THEN 2 ELSE 0)
    ELSE 0

RECURSIVE SumOfTerms(_, _, _)
SumOfTerms(article, query, terms) ==
  IF terms = {} THEN 0
  ELSE LET term == CHOOSE x \in terms : TRUE
       IN  TermScore(article, SubSeq(toLowerCase(query), term[1], term[2]))
             + SumOfTerms(article, query, terms \ {term})

\* the score of an article for a query
ScoreOf(article, query) == SumOfTerms(article, query, TermsOf(query))

\* a search_knowledge_base call with a query has returned
Searched(t) ==
  /\ turn[t].pc = "tool_returned"
  /\ turn[t].functionName = "search_knowledge_base"
  /\ turn[t].args[1].query # NoQuery

\* articles is a ranking of at most 3 articles of corpus for query
IsRanking(articles, corpus, query) ==
  /\ Len(articles) <= 3
  /\ \E f \in [1..Len(articles) -> 1..Len(corpus)] :
       /\ \A i \in 1..Len(articles) :
            /\ articles[i].content = corpus[f[i]].content
            /\ articles[i].tags = corpus[f[i]].tags
            /\ articles[i].score = ScoreOf(corpus[f[i]], query)
            /\ articles[i].score > 0
       /\ \A i, j \in 1..Len(articles) :
            i < j =>
              /\ f[i] # f[j]
              /\ articles[i].score >= articles[j].score
              /\ articles[i].score = articles[j].score => f[i] < f[j]

\* C28: searchKnowledge, for every query and every corpus, returns at most
\* 3 articles, each with a score above zero, in non-increasing order of
\* score and equal scores in corpus order; the score of an article is the
\* sum, over the whitespace-delimited lowercase terms of the query, of 1
\* when the term occurs in title, body and tags, plus 2 when it occurs in
\* the title; without a corpus the result is empty and no error.
C28_SearchRanking ==
  \A t \in Turns :
    Searched(t) =>
      /\ "articles" \in DOMAIN turn[t].result
      /\ IF knowledge_json = << >>
           THEN turn[t].result.articles = << >>
           ELSE IsRanking(turn[t].result.articles, knowledge_json[1], turn[t].args[1].query)

\* the step updates the record at k for the call argument a: the fields
\* provided get their values, updated_at is stamped, nothing else changes
Updates(k, a) ==
  /\ store[k].id = a.work_order_id
  /\ Len(store') = Len(store)
  /\ \A j \in 1..Len(store) : j # k => store'[j] = store[j]
  /\ store'[k].updated_at # UNSET
  /\ store'[k] =
       [store[k] EXCEPT
          !.issue_summary = IF a.issue_summary # UNDEF THEN a.issue_summary ELSE @,
          !.priority = IF a.priority # UNDEF THEN a.priority ELSE @,
          !.status = IF a.status # UNDEF THEN a.status ELSE @,
          !.updated_at = store'[k].updated_at]

C31_Step ==
  \A t \in Turns :
    (Ran(t, "update_work_order") /\ InStore(store, turn'[t].args[1].work_order_id)) =>
      /\ ~IsError(turn'[t].result)
      /\ \E k \in 1..Len(store) : Updates(k, turn'[t].args[1])

\* C31: update_work_order on an id present in the store changes, in one
\* record with that id, exactly the fields among issue_summary, priority
\* and status that the call provides, and stamps updated_at; the fields not
\* provided, every other field of the record and every other record stay
\* as they were.
C31_UpdateFrame == [][C31_Step]_vars

C31_Witness ==
  \E t \in Turns :
    /\ Returns(t, "update_work_order")
    /\ ~IsError(turn[t].result)
    /\ turn[t].args[1].issue_summary = UNDEF
    /\ turn[t].args[1].status = UNDEF
    /\ Len(store) = 2
    /\ store[2].priority = "Low"
    /\ store[2].issue_summary = "tap drips"
    /\ store[2].status = "assigned"
    /\ store[2].updated_at # UNSET
    /\ store[1].updated_at = UNSET
    /\ store[1].priority = "High"

\* the tenant of a stored record, under either field name
TenantOfOrder(wo) == IF wo.tenant_id # UNDEF THEN wo.tenant_id ELSE wo.tenantId

\* the places of the store that get_work_orders(tenant, filter) is to list
Listed(tenant, filter) ==
  {i \in 1..Len(store) :
     /\ TenantOfOrder(store[i]) = tenant
     /\ filter \notin {UNDEF, ""} => StatusLower(store[i].status) = StatusLower(filter)}

\* listed is the record wo in the canonical field shape
CanonicalOf(listed, wo) ==
  /\ DOMAIN listed = {"id", "tenant_id", "issue_summary", "contractor_id", "contractor_name",
                      "trade", "priority", "status", "created_at", "attachments_count",
                      "has_photos"}
  /\ listed.id = wo.id
  /\ listed.tenant_id = TenantOfOrder(wo)
  /\ listed.issue_summary = (IF wo.issue_summary # UNDEF THEN wo.issue_summary
                             ELSE wo.issueDescription)
  /\ listed.contractor_id = (IF wo.contractor_id # NoContractorArg THEN wo.contractor_id
                             ELSE wo.contractorId)
  /\ listed.contractor_name = wo.contractor_name
  /\ listed.trade = wo.trade
  /\ listed.priority = wo.priority
  /\ listed.status = wo.status
  /\ listed.created_at = (IF wo.created_at # UNSET THEN wo.created_at ELSE wo.createdAt)
  /\ listed.attachments_count = Len(wo.attachments)
  /\ listed.has_photos = (Len(wo.attachments) > 0)

C32_State ==
  \A t \in Turns :
    (Returns(t, "get_work_orders") /\ ~IsError(turn[t].result)) =>
      LET orders == turn[t].result.orders
          places == Listed(turn[t].tenant, turn[t].args[1].status_filter)
      IN  /\ Len(orders) = Cardinality(places)
          /\ \A i \in places :
               CanonicalOf(orders[Cardinality({j \in places : j <= i})], store[i])
          /\ \A k \in 1..Len(orders) : orders[k].tenant_id = turn[t].tenant

\* C32: get_work_orders(tenant, filter) returns, in store order, exactly the
\* records whose tenant_id, or tenantId when tenant_id is missing, is the
\* tenant and, when a filter is given, whose status equals it ignoring
\* case; no record of another tenant is returned, each record comes in the
\* canonical field shape, and the store is not modified.
C32_ListOrders ==
  /\ [] C32_State
  /\ [][\A t \in Turns : Ran(t, "get_work_orders") => store' = store]_vars

C32_Witness ==
  \E t \in Turns :
    /\ Returns(t, "get_work_orders")
    /\ turn[t].args[1].status_filter = "pending"
    /\ turn[t].tenant = Tenants[1].id
    /\ Len(store) = 2
    /\ store[1].tenantId = Tenants[2].id
    /\ store[2].tenantId = Tenants[1].id
    /\ store[2].status = "Pending"
    /\ Len(turn[t].result.orders) = 1
    /\ turn[t].result.orders[1].id = 100
    /\ turn[t].result.orders[1].issue_summary = "old leak"

\* C33: with a judge that is right and an engine that asks for
\* create_work_order only after the check_similar_issues of its turn
\* returned has_similar = false, two concurrent turns of one tenant that
\* report the same problem never both create a work order: the tenant has
\* at most one active work order for the problem.
C33_OneActiveOrderPerProblem ==
  \A i \in 1..Len(Tenants) : Len(TenantActive(store, Tenants[i].id)) <= 1

(***************************************************************************)
(* Tenant isolation of the mutating tools.                                 *)
(***************************************************************************)
MutatingTools == {"update_work_order", "complete_work_order", "delete_work_order"}

\* the records of wos that do not belong to the tenant, in order
OrdersOfOthers(wos, tenant) == SelectSeq(wos, LAMBDA wo : wo.tenant_id # tenant)

\* C34: a step of a chat turn of tenant A that runs update_work_order,
\* complete_work_order or delete_work_order changes or removes only work
\* orders whose tenant_id is A: the records of every other tenant are the
\* same, in the same order, after the step.
C34_Step ==
  \A t \in Turns, name \in MutatingTools :
    Ran(t, name) =>
      OrdersOfOthers(store', turn[t].tenant) = OrdersOfOthers(store, turn[t].tenant)

C34_MutationsStayInTenant == [][C34_Step]_vars

KnownTenantIds == {Tenants[i].id : i \in 1..Len(Tenants)}

\* this step of turn t reads the work orders of a tenant
ReadsOrders(t) == Ran(t, "get_work_orders") \/ CheckBegins(t)

\* C35: every work order a chat turn creates carries the tenant_id of the
\* request; a turn whose request names no tenant of tenants.json creates no
\* work order and reads no tenant's orders.
C35_Step ==
  \A t \in Turns :
    /\ Created(t) => store'[Len(store')].tenant_id = RequestTenantId(t)
    /\ RequestTenantId(t) \notin KnownTenantIds => ~Created(t) /\ ~ReadsOrders(t)

C35_TurnsKeepToRequestTenant == [][C35_Step]_vars

(***************************************************************************)
(* Disk faults.                                                            *)
(***************************************************************************)
\* the store wos shows the operation `name` that returned `result` for the
\* arguments args
Reflects(wos, name, args, result) ==
  CASE name = "create_work_order" ->
         \E i \in 1..Len(wos) : SnapshotOf(result, wos[i])
    [] name \in {"update_work_order", "complete_work_order"} ->
         \E i \in 1..Len(wos) : wos[i].id = args.work_order_id /\ SnapshotOf(result, wos[i])
    [] name = "delete_work_order" -> ~InStore(wos, args.work_order_id)
    [] OTHER -> TRUE

WritingTools ==
  {"create_work_order", "update_work_order", "complete_work_order", "delete_work_order"}

\* C36: whenever create_work_order, update_work_order, complete_work_order
\* or delete_work_order returns a result that is not an error, the store
\* right after the call shows the operation (the created or changed record
\* is in it as returned, the deleted record is not); a write that fails
\* leaves the store as it was, so the call has to report an error then.
C36_Step ==
  \A t \in Turns, name \in WritingTools :
    Ran(t, name) /\ ~IsError(turn'[t].result) =>
      Reflects(store', name, turn'[t].args[1], turn'[t].result)

C36_ReportedSuccessIsPersisted == [][C36_Step]_vars

\* C37: a create_work_order call that returns a record leaves every record
\* the store held before as it was and where it was, and adds exactly one
\* record at the end, also when the read of the collection fails.
C37_Step ==
  \A t \in Turns :
    Created(t) =>
      /\ Len(store') = Len(store) + 1
      /\ \A k \in 1..Len(store) : store'[k] = store[k]
      /\ SnapshotOf(turn'[t].result, store'[Len(store')])

C37_CreateKeepsRecords == [][C37_Step]_vars

(***************************************************************************)
(* Identity fields and the frame of the store.                             *)
(***************************************************************************)
IdentityFields == {"id", "tenant_id", "contractor_id", "contractor_name", "trade", "created_at"}

\* this step is a PATCH request that changed the store
Patched == turn' = turn /\ store' # store

\* this step is an update_work_order or complete_work_order call that
\* returned a record
Restated(t) ==
  /\ Ran(t, "update_work_order") \/ Ran(t, "complete_work_order")
  /\ ~IsError(turn'[t].result)

\* C38: an update_work_order call, a complete_work_order call and a PATCH
\* request leave id, tenant_id, contractor_id, contractor_name, trade and
\* created_at of every stored record as they were, so no sequence of them
\* changes these fields between the creation and the deletion of a record.
C38_Step ==
  (Patched \/ \E t \in Turns : Restated(t)) =>
    /\ Len(store') = Len(store)
    /\ \A i \in 1..Len(store), f \in IdentityFields : store'[i][f] = store[i][f]

C38_IdentityFieldsImmutable == [][C38_Step]_vars

\* an order created at time 1 has been updated at time 2
C38_Witness ==
  \E t \in Turns :
    /\ Returns(t, "update_work_order")
    /\ ~IsError(turn[t].result)
    /\ now = 2
    /\ Len(store) = 1
    /\ store[1].created_at = 1
    /\ store[1].updated_at = SET
    /\ store[1].status = "in_progress"

ReadingTools ==
  {"check_similar_issues", "get_work_orders", "get_available_contractors",
   "search_knowledge_base"}

\* wos2 has the records of wos at their places; they differ at most in the
\* fields that are not identity fields
SameRecords(wos, wos2) ==
  /\ Len(wos2) = Len(wos)
  /\ \A i \in 1..Len(wos), f \in IdentityFields : wos2[i][f] = wos[i][f]

\* this step is a delete_work_order call of turn t that returned a record
Deleted(t) == Ran(t, "delete_work_order") /\ ~IsError(turn'[t].result)

\* C39: a create_work_order call that returns a record adds exactly one
\* record, at the end; a delete_work_order call that returns one removes
\* exactly one; update_work_order, complete_work_order and PATCH keep the
\* number and the order of the records; the calls of the reading tools and
\* every call that returns an error leave the store as it was; and no other
\* step changes the store.
C39_Step ==
  /\ \A t \in Turns :
       /\ Created(t) => Len(store') = Len(store) + 1 /\ SubSeq(store', 1, Len(store)) = store
       /\ Deleted(t) => \E i \in 1..Len(store) : Without(store, store', i)
       /\ Restated(t) => SameRecords(store, store')
       /\ \A name \in ReadingTools : Ran(t, name) \/ CheckBegins(t) => store' = store
       /\ turn'[t].pc = "tool_returned" /\ turn[t].pc # "tool_returned"
            /\ IsError(turn'[t].result) => store' = store
  /\ Patched => SameRecords(store, store')
  /\ store' # store => Patched \/ \E t \in Turns : Created(t) \/ Deleted(t) \/ Restated(t)

C40_DuplicateVerdictIsCurrent ==
  \A t \in Turns :
    (CheckReturned(t) /\ "has_similar" \in DOMAIN turn[t].result /\ turn[t].result.has_similar) =>
      \E i \in 1..Len(store) :
        /\ store[i].id = turn[t].result.similar_order[1].id
        /\ store[i].status \in ActiveStatuses

====
